---- MODULE Spec2Model ----
(***************************************************************************)
(* Model of py4uview's reader (src/py4uview/reader.py): FileReader decodes *)
(* one Uview .dat file.  One decode is a state machine over the file       *)
(* cursor: fixed header, recipe, image header, layout branch, markup       *)
(* decoder loop, tagged leem-header decoder loop, image extraction.        *)
(*                                                                         *)
(* Conventions.  Bytes are integers 0..255 and byte strings are sequences  *)
(* of bytes.  A Python str is the sequence of its code points, so that a   *)
(* key decoded from the file and a key written as a literal in the source  *)
(* are the same kind of value.  Every Python value stored by the reader is *)
(* a record tagged by its type in field t.                                 *)
(***************************************************************************)
EXTENDS Integers, Sequences, FiniteSets, TLC

VARIABLES
    file,               \* the bytes of the input file (never modified)
    fpos,               \* f.tell(): cursor of the open file
    pc,                 \* the stage of _read that runs next
    status,             \* "running", "done" (object returned), "failed" (exception left __init__)
    err,                \* the exception type that ended the decode, or "none"
    metadata,           \* self.metadata
    attachedRecipeSize, \* local of _read
    att_markupsize,     \* local of _read
    versleemdata,       \* local of _read
    leemheader,         \* self._leemheader (Unset until assigned)
    position,           \* self._position
    iterpos,            \* number of bytes b_iter has delivered
    offset,             \* local of _read_leemheader (Unbound until assigned)
    rawmarkups,         \* self._markups
    markups,            \* self.markups
    mi,                 \* local i of _read_markups
    type_marker,        \* local type_marker of _read_markups
    data,               \* self.data
    log,                \* diagnostics emitted (logging.error, print), in order
    tables,             \* the module-level KNOWN_TAGS, GAUGE_TAGS and UNIT_DICT
    sched,              \* the other FileReader objects of the process, if any
    batch               \* the loop of the batch tool over its list of files, if any

vars == <<file, fpos, pc, status, err, metadata, attachedRecipeSize,
          att_markupsize, versleemdata, leemheader, position, iterpos, offset,
          rawmarkups, markups, mi, type_marker, data, log, tables, sched,
          batch>>

-----------------------------------------------------------------------------
(* Small arithmetic and sequence helpers.                                  *)

Min(a, b) == IF a <= b THEN a ELSE b

Max(a, b) == IF a >= b THEN a ELSE b

\* Python s[a:b] for 0 <= a, clamped to the sequence as slicing does.
Slice(s, a, b) == SubSeq(s, a + 1, Min(b, Len(s)))

\* Python s[a:]
SliceFrom(s, a) == SubSeq(s, a + 1, Len(s))

Zeros(n) == [i \in 1..n |-> 0]

Reverse(s) == [i \in 1..Len(s) |-> s[Len(s) + 1 - i]]

\* index (1-based) of the first element of s that is in the set cs, 0 when
\* there is none
FirstOf(s, cs) ==
    IF \A i \in 1..Len(s) : s[i] \notin cs THEN 0
    ELSE CHOOSE i \in 1..Len(s) :
            s[i] \in cs /\ \A j \in 1..(i - 1) : s[j] \notin cs

\* index of the first zero byte of s, 0 when there is none
FirstZero(s) == FirstOf(s, {0})

\* bytes.split(b"\x00")[0]
Split0(s) ==
    LET z == FirstZero(s)
    IN  IF z = 0 THEN s ELSE SubSeq(s, 1, z - 1)

\* number of pieces of bytes.split(b"\x00") is 1 + the number of zero bytes
HasZero(s) == FirstZero(s) # 0

\* bytes.split(b"\x00")[1], defined when s has a zero byte
Split1(s) ==
    LET z == FirstZero(s)
    IN  Split0(SubSeq(s, z + 1, Len(s)))

-----------------------------------------------------------------------------
(* Python values.                                                          *)

Unset == [t |-> "unset"]

Unbound == [t |-> "unbound"]

PyInt(n) == [t |-> "int", v |-> n]

PyBytes(b) == [t |-> "bytes", v |-> b]

PyStr(s) == [t |-> "str", v |-> s]

PyBool(b) == [t |-> "bool", v |-> b]

PyNone == [t |-> "none"]

\* a Python list [value, unit]
PyList2(v, u) == [t |-> "list", v |-> <<v, u>>]

\* dict assignment d[k] = v
Put(d, k, v) == [x \in (DOMAIN d) \cup {k} |-> IF x = k THEN v ELSE d[x]]

EmptyDict == [x \in {} |-> Unset]

-----------------------------------------------------------------------------
(* struct.unpack                                                           *)

\* struct.unpack("<h", b)[0] for a 2-byte b
Unpack_h(b) ==
    LET u == b[1] + 256 * b[2]
    IN  IF u >= 32768 THEN u - 65536 ELSE u

\* struct.unpack("<H", b)[0] for a 2-byte b
Unpack_H(b) == b[1] + 256 * b[2]

\* strip the factors of two of a non-zero mantissa: m * 2^e with m odd
RECURSIVE NormFloat(_, _, _)
NormFloat(s, m, e) ==
    IF m % 2 = 0 THEN NormFloat(s, m \div 2, e + 1)
    ELSE [t |-> "float", cls |-> "finite", s |-> s, m |-> m, e |-> e]

\* struct.unpack("<f", b)[0] for a 4-byte b: IEEE-754 binary32, little endian.
\* A finite value is (-1)^s * m * 2^e with m odd (or m = 0).
Unpack_f(b) ==
    LET sgn  == b[4] \div 128
        ex   == (b[4] % 128) * 2 + (b[3] \div 128)
        frac == (b[3] % 128) * 65536 + b[2] * 256 + b[1]
    IN  IF ex = 255
        THEN IF frac = 0
             THEN [t |-> "float", cls |-> "inf", s |-> sgn, m |-> 0, e |-> 0]
             ELSE [t |-> "float", cls |-> "nan", s |-> 0, m |-> 0, e |-> 0]
        ELSE IF ex = 0
        THEN IF frac = 0
             THEN [t |-> "float", cls |-> "finite", s |-> sgn, m |-> 0, e |-> 0]
             ELSE NormFloat(sgn, frac, 0 - 149)
        ELSE NormFloat(sgn, 8388608 + frac, ex - 150)

\* struct.unpack("<Q", b)[0] for an 8-byte b, kept as its bytes, most
\* significant first (the value does not fit the model's integers)
Unpack_Q(b) == Reverse(b)

\* a <= b for two 8-byte big-endian numbers
RECURSIVE LeqBE(_, _)
LeqBE(a, b) ==
    IF a = <<>> THEN TRUE
    ELSE IF Head(a) < Head(b) THEN TRUE
    ELSE IF Head(a) > Head(b) THEN FALSE
    ELSE LeqBE(Tail(a), Tail(b))

-----------------------------------------------------------------------------
(* Module-level tables of reader.py.                                       *)

KNOWN_TAGS ==
    {210, 203, 185, 208, 215, 184, 169, 222, 136, 137, 133, 134, 138, 135,
     132, 143, 144, 206, 172, 147, 171, 145, 146, 148, 168, 130, 131, 158,
     159, 128, 129, 161, 162, 211, 163, 149, 187, 177, 178, 180, 181, 202,
     190, 191, 194, 195, 196, 214, 198, 199, 182, 179, 200, 201, 176, 197,
     192, 213, 209, 183, 186, 212, 164, 165, 140, 141, 11, 160, 150, 151,
     153, 154, 156, 157, 152, 155, 173, 174, 205, 204, 188, 189, 175, 170,
     142, 207, 219, 39, 38}

GAUGE_TAGS == {106, 235, 236, 237}

\* UNIT_DICT = ("", "V", "mA", "A", "°C", " K", "mV", "pA", "nA", "µA"),
\* each string as its code points, indexed from 1 here
UNIT_DICT ==
    << <<>>, <<86>>, <<109, 65>>, <<65>>, <<176, 67>>, <<32, 75>>,
       <<109, 86>>, <<112, 65>>, <<110, 65>>, <<181, 65>> >>

\* largest tick count for which _EPOCH_START + timedelta(seconds=ticks/10**7)
\* is still a datetime (<= 9999-12-31T23:59:59.999999): 2650467743999999847
MaxTicksBE == <<36, 200, 90, 94, 209, 192, 63, 103>>

\* _convert_ad_timestamp: datetime + timedelta raises OverflowError past
\* datetime.max, otherwise yields the instant that many ticks after 1601-01-01
_convert_ad_timestamp(ticksBE) ==
    IF LeqBE(ticksBE, MaxTicksBE)
    THEN [t |-> "datetime", epoch |-> 1601, ticks |-> ticksBE]
    ELSE [t |-> "raise", exc |-> "OverflowError"]

\* bytes.decode("cp1252"): the five bytes the code page leaves undefined
Cp1252Undefined == {129, 141, 143, 144, 157}

\* code points of the bytes 128..159 that cp1252 maps outside Latin-1
Cp1252High ==
    [b \in 128..159 |->
        CASE b = 128 -> 8364 [] b = 130 -> 8218 [] b = 131 -> 402
          [] b = 132 -> 8222 [] b = 133 -> 8230 [] b = 134 -> 8224
          [] b = 135 -> 8225 [] b = 136 -> 710  [] b = 137 -> 8240
          [] b = 138 -> 352  [] b = 139 -> 8249 [] b = 140 -> 338
          [] b = 142 -> 381  [] b = 145 -> 8216 [] b = 146 -> 8217
          [] b = 147 -> 8220 [] b = 148 -> 8221 [] b = 149 -> 8226
          [] b = 150 -> 8211 [] b = 151 -> 8212 [] b = 152 -> 732
          [] b = 153 -> 8482 [] b = 154 -> 353  [] b = 155 -> 8250
          [] b = 156 -> 339  [] b = 158 -> 382  [] b = 159 -> 376
          [] OTHER -> 65533]

Cp1252Decodable(b) == \A i \in 1..Len(b) : b[i] \notin Cp1252Undefined

\* bytes.decode("cp1252") of a decodable byte string
Cp1252Decode(b) ==
    [i \in 1..Len(b) |-> IF b[i] \in 128..159 THEN Cp1252High[b[i]] ELSE b[i]]

-----------------------------------------------------------------------------
(* Keys of self.metadata written by literal in the source.                 *)

K_id == <<105, 100>>
K_size == <<115, 105, 122, 101>>
K_version == <<118, 101, 114, 115, 105, 111, 110>>
K_bitsperpix == <<98, 105, 116, 115, 112, 101, 114, 112, 105, 120>>
K_width == <<119, 105, 100, 116, 104>>
K_height == <<104, 101, 105, 103, 104, 116>>
K_noimg == <<110, 111, 105, 109, 103>>
K_attachedRecipeSize ==
    <<97, 116, 116, 97, 99, 104, 101, 100, 82, 101, 99, 105, 112, 101, 83,
      105, 122, 101>>
K_isize == <<105, 115, 105, 122, 101>>
K_iversion == <<105, 118, 101, 114, 115, 105, 111, 110>>
K_colorscale_low ==
    <<99, 111, 108, 111, 114, 115, 99, 97, 108, 101, 95, 108, 111, 119>>
K_colorscale_high ==
    <<99, 111, 108, 111, 114, 115, 99, 97, 108, 101, 95, 104, 105, 103, 104>>
K_timestamp == <<116, 105, 109, 101, 115, 116, 97, 109, 112>>
K_mask_xshift == <<109, 97, 115, 107, 95, 120, 115, 104, 105, 102, 116>>
K_mask_yshift == <<109, 97, 115, 107, 95, 121, 115, 104, 105, 102, 116>>
K_usemask == <<117, 115, 101, 109, 97, 115, 107>>
K_att_markupsize ==
    <<97, 116, 116, 95, 109, 97, 114, 107, 117, 112, 115, 105, 122, 101>>
K_spin == <<115, 112, 105, 110>>
K_Camera_Exposure ==
    <<67, 97, 109, 101, 114, 97, 32, 69, 120, 112, 111, 115, 117, 114, 101>>
K_Average_Images ==
    <<65, 118, 101, 114, 97, 103, 101, 32, 73, 109, 97, 103, 101, 115>>
K_Image_Title == <<73, 109, 97, 103, 101, 32, 84, 105, 116, 108, 101>>
K_MCPscreen == <<77, 67, 80, 115, 99, 114, 101, 101, 110>>
K_MCPchannelplate ==
    <<77, 67, 80, 99, 104, 97, 110, 110, 101, 108, 112, 108, 97, 116, 101>>
K_Mitutoyo_X == <<77, 105, 116, 117, 116, 111, 121, 111, 32, 88>>
K_Mitutoyo_Y == <<77, 105, 116, 117, 116, 111, 121, 111, 32, 89>>
K_MirrorState == <<77, 105, 114, 114, 111, 114, 83, 116, 97, 116, 101>>
K_FOV_cal_factor ==
    <<70, 79, 86, 32, 99, 97, 108, 46, 32, 102, 97, 99, 116, 111, 114>>
K_LEED == <<76, 69, 69, 68>>
K_FOV == <<70, 79, 86>>
K_disp_plane == <<100, 105, 115, 112, 95, 112, 108, 97, 110, 101>>
K_Rotation == <<82, 111, 116, 97, 116, 105, 111, 110>>
K_Spin_up_down == <<83, 112, 105, 110, 32, 117, 112, 95, 100, 111, 119, 110>>
K_Theta == <<84, 104, 101, 116, 97>>
K_Phi == <<80, 104, 105>>

\* unit literals of _read_leemheader
U_s == <<115>>
U_V == <<86>>
U_mm == <<109, 109>>
U_degree == <<100, 101, 103, 114, 101, 101>>
U_micron == <<181, 109>>

-----------------------------------------------------------------------------
(* The file object.                                                        *)

\* f.read(n) at cursor pos: the bytes delivered (all the rest when n < 0)
FRead(f, pos, n) ==
    IF n < 0 THEN SliceFrom(f, Min(pos, Len(f)))
    ELSE Slice(f, Min(pos, Len(f)), pos + n)

\* class FileReader: __slots__
Slots ==
    {"metadata", "data", "markups", "recipe", "_position", "_markups",
     "_leemheader"}

-----------------------------------------------------------------------------
(* Sequential reads of the fixed header.  A field is                       *)
(*   "id"   f.read(20).split(b"\x00")[0], stored as bytes                  *)
(*   "h"    struct.unpack("<h", f.read(2))[0], stored as int               *)
(*   "Q"    _convert_ad_timestamp(struct.unpack("<Q", f.read(8))[0])       *)
(*   "raw"  f.read(n), stored as bytes                                     *)
(*   "skip" f.seek(n, 1)                                                   *)
(* struct.unpack raises struct.error when f.read delivered fewer bytes     *)
(* than the format needs; f.read itself never raises.                      *)

Fld(op, key, n) == [op |-> op, key |-> key, n |-> n]

\* _read, lines 596-616
PreambleFields ==
    << Fld("id", K_id, 20),
       Fld("h", K_size, 2),
       Fld("h", K_version, 2),
       Fld("h", K_bitsperpix, 2),
       Fld("skip", <<>>, 6),
       Fld("skip", <<>>, 8),
       Fld("h", K_width, 2),
       Fld("h", K_height, 2),
       Fld("h", K_noimg, 2),
       Fld("h", K_attachedRecipeSize, 2),
       Fld("skip", <<>>, 56) >>

\* _read, lines 624-645
ImageHeaderFields ==
    << Fld("h", K_isize, 2),
       Fld("h", K_iversion, 2),
       Fld("h", K_colorscale_low, 2),
       Fld("h", K_colorscale_high, 2),
       Fld("Q", K_timestamp, 8),
       Fld("h", K_mask_xshift, 2),
       Fld("h", K_mask_yshift, 2),
       Fld("raw", K_usemask, 1),
       Fld("skip", <<>>, 1),
       Fld("h", K_att_markupsize, 2),
       Fld("h", K_spin, 2) >>

RECURSIVE ReadFields(_, _, _, _)
ReadFields(f, flds, pos, md) ==
    IF flds = <<>> THEN [md |-> md, pos |-> pos, err |-> "none"]
    ELSE
      LET fl == Head(flds)
          b  == FRead(f, pos, fl.n)
          np == pos + Len(b)
      IN  CASE fl.op = "skip" ->
                 ReadFields(f, Tail(flds), pos + fl.n, md)
            [] fl.op = "id" ->
                 ReadFields(f, Tail(flds), np, Put(md, fl.key, PyBytes(Split0(b))))
            [] fl.op = "raw" ->
                 ReadFields(f, Tail(flds), np, Put(md, fl.key, PyBytes(b)))
            [] fl.op = "h" ->
                 IF Len(b) < 2
                 THEN [md |-> md, pos |-> np, err |-> "struct.error"]
                 ELSE ReadFields(f, Tail(flds), np, Put(md, fl.key, PyInt(Unpack_h(b))))
            [] fl.op = "Q" ->
                 IF Len(b) < 8
                 THEN [md |-> md, pos |-> np, err |-> "struct.error"]
                 ELSE LET ts == _convert_ad_timestamp(Unpack_Q(b))
                      IN  IF ts.t = "raise"
                          THEN [md |-> md, pos |-> np, err |-> ts.exc]
                          ELSE ReadFields(f, Tail(flds), np, Put(md, fl.key, ts))

-----------------------------------------------------------------------------
(* FileReader._read, stage by stage.                                       *)

\* lines 595-616: identifier to attached-recipe size, then the 56 spare bytes
ReadPreamble ==
    /\ status = "running" /\ pc = "preamble"
    /\ LET r == ReadFields(file, PreambleFields, fpos, metadata)
       IN  /\ metadata' = r.md
           /\ fpos' = r.pos
           /\ IF r.err = "none"
              THEN /\ attachedRecipeSize' = r.md[K_attachedRecipeSize].v
                   /\ pc' = "recipe"
                   /\ UNCHANGED <<status, err>>
              ELSE /\ status' = "failed" /\ err' = r.err
                   /\ UNCHANGED <<attachedRecipeSize, pc>>
    /\ UNCHANGED <<file, att_markupsize, versleemdata, leemheader, position,
                   iterpos, offset, rawmarkups, markups, mi, type_marker,
                   data, log>>
    /\ UNCHANGED <<tables, sched>>
    /\ UNCHANGED batch

\* lines 619-621: self._recipe is not a slot of the class, so the assignment
\* raises AttributeError after the read
ReadRecipe ==
    /\ status = "running" /\ pc = "recipe"
    /\ IF attachedRecipeSize # 0
       THEN LET b == FRead(file, fpos, attachedRecipeSize)
            IN  IF "_recipe" \in Slots
                THEN /\ fpos' = fpos + Len(b) + (128 - attachedRecipeSize)
                     /\ pc' = "imghdr"
                     /\ UNCHANGED <<status, err>>
                ELSE /\ fpos' = fpos + Len(b)
                     /\ status' = "failed" /\ err' = "AttributeError"
                     /\ UNCHANGED pc
       ELSE /\ pc' = "imghdr"
            /\ UNCHANGED <<fpos, status, err>>
    /\ UNCHANGED <<file, metadata, attachedRecipeSize, att_markupsize,
                   versleemdata, leemheader, position, iterpos, offset,
                   rawmarkups, markups, mi, type_marker, data, log>>
    /\ UNCHANGED <<tables, sched>>
    /\ UNCHANGED batch

\* lines 624-646: first block of the image header, up to versleemdata
ReadImageHeader ==
    /\ status = "running" /\ pc = "imghdr"
    /\ LET r == ReadFields(file, ImageHeaderFields, fpos, metadata)
           b == FRead(file, r.pos, 2)
       IN  /\ metadata' = r.md
           /\ IF r.err # "none"
              THEN /\ fpos' = r.pos
                   /\ status' = "failed" /\ err' = r.err
                   /\ UNCHANGED <<att_markupsize, versleemdata, pc>>
              ELSE IF Len(b) < 2
              THEN /\ fpos' = r.pos + Len(b)
                   /\ att_markupsize' = r.md[K_att_markupsize].v
                   /\ status' = "failed" /\ err' = "struct.error"
                   /\ UNCHANGED <<versleemdata, pc>>
              ELSE /\ fpos' = r.pos + 2
                   /\ att_markupsize' = r.md[K_att_markupsize].v
                   /\ versleemdata' = Unpack_h(b)
                   /\ pc' = "layout"
                   /\ UNCHANGED <<status, err>>
    /\ UNCHANGED <<file, attachedRecipeSize, leemheader, position, iterpos,
                   offset, rawmarkups, markups, mi, type_marker, data, log>>
    /\ UNCHANGED <<tables, sched>>
    /\ UNCHANGED batch

\* variant of SimpleLayout: the selector value 2 only
SimpleLayout_eq(v) == v = 2

\* line 654
SimpleLayout(v) == v <= 2

\* variant of HasMarkups: any non-zero size counts
HasMarkups_nonzero(m) == m # 0

\* line 659
HasMarkups(m) == m > 0

\* variant of MarkupBlockSize: the size rounded up to a multiple of 128
MarkupBlockSize_ceil(m) == 128 * ((m + 127) \div 128)

\* line 660: 128 * (att_markupsize // 128 + 1)
MarkupBlockSize(m) == 128 * (m \div 128 + 1)

\* lines 654-660: the layout branch.  Simple layout: the 240-byte leem header
\* and 20 spare bytes.  Otherwise 260 bytes are skipped and the markup block,
\* if any, is read.
ReadLayout ==
    /\ status = "running" /\ pc = "layout"
    /\ IF SimpleLayout(versleemdata)
       THEN LET b == FRead(file, fpos, 240)
            IN  /\ leemheader' = PyBytes(b)
                /\ fpos' = fpos + Len(b) + 20
                /\ pc' = "leem"
                /\ UNCHANGED rawmarkups
       ELSE IF HasMarkups(att_markupsize)
       THEN LET b == FRead(file, fpos + 260, MarkupBlockSize(att_markupsize))
            IN  /\ rawmarkups' = PyBytes(b)
                /\ fpos' = fpos + 260 + Len(b)
                /\ pc' = "markups_begin"
                /\ UNCHANGED leemheader
       ELSE /\ fpos' = fpos + 260
            /\ pc' = "leemblock"
            /\ UNCHANGED <<leemheader, rawmarkups>>
    /\ UNCHANGED <<file, status, err, metadata, attachedRecipeSize,
                   att_markupsize, versleemdata, position, iterpos, offset,
                   markups, mi, type_marker, data, log>>
    /\ UNCHANGED <<tables, sched>>
    /\ UNCHANGED batch

\* lines 662 and 667: the leem header of the other layout has versleemdata bytes
ReadLeemBlock ==
    /\ status = "running" /\ pc = "leemblock"
    /\ LET b == FRead(file, fpos, versleemdata)
       IN  /\ leemheader' = PyBytes(b)
           /\ fpos' = fpos + Len(b)
    /\ pc' = "leem"
    /\ UNCHANGED <<file, status, err, metadata, attachedRecipeSize,
                   att_markupsize, versleemdata, position, iterpos, offset,
                   rawmarkups, markups, mi, type_marker, data, log>>
    /\ UNCHANGED <<tables, sched>>
    /\ UNCHANGED batch

-----------------------------------------------------------------------------
(* FileReader._read_markups                                                *)

\* variant of MARKER_LENGTH: a cross-section record of 16 bytes
MARKER_LENGTH_16 ==
    [marker |-> 24, horizontal |-> 0, vertical |-> 0, arbitrary |-> 16,
     label |-> 0]

\* MARKER_LENGTH, in bytes
MARKER_LENGTH ==
    [marker |-> 24, horizontal |-> 0, vertical |-> 0, arbitrary |-> 14,
     label |-> 0]

\* element k (from 0) of struct.unpack("<nH", raw)
HWord(raw, k) == raw[2 * k + 1] + 256 * raw[2 * k + 2]

\* self.markups[mytype].append(mark_val), creating the list on first use
AppendMarkup(mk, mytype, mark_val) ==
    IF mytype \in DOMAIN mk
    THEN [mk EXCEPT ![mytype] = Append(@, mark_val)]
    ELSE Put(mk, mytype, <<mark_val>>)

\* lines 543-545: self.markups = {}, i = 4 and the first type selector
MarkupsBegin ==
    /\ status = "running" /\ pc = "markups_begin"
    /\ markups' = [t |-> "dict", v |-> EmptyDict]
    /\ mi' = 4
    /\ LET b == Slice(rawmarkups.v, 4, 6)
       IN  IF Len(b) < 2
           THEN /\ status' = "failed" /\ err' = "struct.error"
                /\ UNCHANGED <<type_marker, pc>>
           ELSE /\ type_marker' = Unpack_H(b)
                /\ pc' = "markups"
                /\ UNCHANGED <<status, err>>
    /\ UNCHANGED <<file, fpos, metadata, attachedRecipeSize, att_markupsize,
                   versleemdata, leemheader, position, iterpos, offset,
                   rawmarkups, data, log>>
    /\ UNCHANGED <<tables, sched>>
    /\ UNCHANGED batch

\* the record decoded at offset i for selector ty (6 or 3): its kind, value
\* and whether struct.unpack got the bytes it needs
MarkupRecord(raw, i, ty) ==
    LET mytype == IF ty = 6 THEN "marker" ELSE "arbitrary"
        length_byte == MARKER_LENGTH[mytype]
        raw_markup == Slice(raw, i, i + length_byte)
    IN  [mytype |-> mytype,
         length |-> length_byte,
         ok     |-> Len(raw_markup) = length_byte,
         val    |-> IF Len(raw_markup) # length_byte THEN Unset
                    ELSE IF ty = 6
                    THEN [x |-> HWord(raw_markup, 1),
                          y |-> HWord(raw_markup, 2),
                          radius |-> HWord(raw_markup, 3)]
                    ELSE [x0_y0 |-> <<HWord(raw_markup, 1), HWord(raw_markup, 2)>>,
                          x1_y1 |-> <<HWord(raw_markup, 3), HWord(raw_markup, 4)>>]]

\* variant of KnownMarker: every other selector is taken as a cross-section
KnownMarker_any(ty) == ty # 0

\* lines 547 and 564: the selectors that have a record format
KnownMarker(ty) == ty \in {6, 3}

\* lines 546-583: one iteration of the while loop (type_marker is non-zero)
MarkupStep ==
    /\ status = "running" /\ pc = "markups" /\ type_marker # 0
    /\ IF KnownMarker(type_marker)
       THEN LET rec == MarkupRecord(rawmarkups.v, mi, type_marker)
                ni  == mi + rec.length
                nb  == Slice(rawmarkups.v, ni, ni + 2)
            IN  IF ~rec.ok
                THEN /\ status' = "failed" /\ err' = "struct.error"
                     /\ UNCHANGED <<markups, mi, type_marker, pc, log>>
                ELSE /\ markups' = [markups EXCEPT
                                      !.v = AppendMarkup(@, rec.mytype, rec.val)]
                     /\ mi' = ni
                     /\ UNCHANGED log
                     /\ IF Len(nb) < 2
                        THEN /\ status' = "failed" /\ err' = "struct.error"
                             /\ UNCHANGED <<type_marker, pc>>
                        ELSE /\ type_marker' = Unpack_H(nb)
                             /\ UNCHANGED <<status, err, pc>>
       ELSE /\ log' = Append(log, [kind |-> "unknown_marker", tag |-> type_marker,
                                   pos |-> mi])
            /\ pc' = "leemblock"
            /\ UNCHANGED <<status, err, markups, mi, type_marker>>
    /\ UNCHANGED <<file, fpos, metadata, attachedRecipeSize, att_markupsize,
                   versleemdata, leemheader, position, iterpos, offset,
                   rawmarkups, data>>
    /\ UNCHANGED <<tables, sched>>
    /\ UNCHANGED batch

\* line 546: the while loop ends on selector 0
MarkupsReturn ==
    /\ status = "running" /\ pc = "markups" /\ type_marker = 0
    /\ pc' = "leemblock"
    /\ UNCHANGED <<file, fpos, status, err, metadata, attachedRecipeSize,
                   att_markupsize, versleemdata, leemheader, position, iterpos,
                   offset, rawmarkups, markups, mi, type_marker, data, log>>
    /\ UNCHANGED <<tables, sched>>
    /\ UNCHANGED batch

-----------------------------------------------------------------------------
(* float(str), as used for the field of view.  The result is the decimal   *)
(* number the text denotes, (-1)^s * m * 10^e with m not divisible by 10   *)
(* (Python then rounds it to the nearest double).                          *)

\* code points of a cp1252-decoded string that float() strips as whitespace
PyWhitespace == {9, 10, 11, 12, 13, 28, 29, 30, 31, 32, 160}

IsDigit(c) == c \in 48..57

RECURSIVE LStrip(_)
LStrip(s) ==
    IF s # <<>> /\ Head(s) \in PyWhitespace THEN LStrip(Tail(s)) ELSE s

Strip(s) == Reverse(LStrip(Reverse(LStrip(s))))

Lower(s) == [i \in 1..Len(s) |-> IF s[i] \in 65..90 THEN s[i] + 32 ELSE s[i]]

\* digits, single underscores allowed between two digits
ValidDigits(d) ==
    /\ Len(d) > 0
    /\ \A i \in 1..Len(d) : IsDigit(d[i]) \/ d[i] = 95
    /\ IsDigit(d[1]) /\ IsDigit(d[Len(d)])
    /\ \A i \in 1..(Len(d) - 1) : ~(d[i] = 95 /\ d[i + 1] = 95)

RECURSIVE DigitsVal(_, _)
DigitsVal(d, acc) ==
    IF d = <<>> THEN acc
    ELSE IF Head(d) = 95 THEN DigitsVal(Tail(d), acc)
    ELSE DigitsVal(Tail(d), 10 * acc + (Head(d) - 48))

NumDigits(d) == Cardinality({i \in 1..Len(d) : IsDigit(d[i])})

RECURSIVE NormDecimal(_, _, _)
NormDecimal(s, m, e) ==
    IF m = 0 THEN [t |-> "float", cls |-> "decimal", s |-> s, m |-> 0, e |-> 0]
    ELSE IF m % 10 = 0 THEN NormDecimal(s, m \div 10, e + 1)
    ELSE [t |-> "float", cls |-> "decimal", s |-> s, m |-> m, e |-> e]

ValueError == [t |-> "raise", exc |-> "ValueError"]

\* float(text) for a str given as code points
PyFloat(text) ==
    LET st    == Strip(text)
        neg   == st # <<>> /\ Head(st) = 45
        sgnd  == st # <<>> /\ Head(st) \in {43, 45}
        body  == IF sgnd THEN Tail(st) ELSE st
        sg    == IF neg THEN 1 ELSE 0
        low   == Lower(body)
        ePos  == FirstOf(body, {69, 101})
        mant  == IF ePos = 0 THEN body ELSE SubSeq(body, 1, ePos - 1)
        expo  == IF ePos = 0 THEN <<>> ELSE SubSeq(body, ePos + 1, Len(body))
        eSgnd == expo # <<>> /\ Head(expo) \in {43, 45}
        eDig  == IF eSgnd THEN Tail(expo) ELSE expo
        eOk   == ePos = 0 \/ ValidDigits(eDig)
        eVal  == IF ePos = 0 \/ ~ValidDigits(eDig) THEN 0
                 ELSE IF expo[1] = 45 THEN 0 - DigitsVal(eDig, 0)
                 ELSE DigitsVal(eDig, 0)
        dPos  == FirstOf(mant, {46})
        ip    == IF dPos = 0 THEN mant ELSE SubSeq(mant, 1, dPos - 1)
        fp    == IF dPos = 0 THEN <<>> ELSE SubSeq(mant, dPos + 1, Len(mant))
        mOk   == /\ ip = <<>> \/ ValidDigits(ip)
                 /\ fp = <<>> \/ ValidDigits(fp)
                 /\ ~(ip = <<>> /\ fp = <<>>)
    IN  IF low \in {<<105, 110, 102>>, <<105, 110, 102, 105, 110, 105, 116, 121>>}
        THEN [t |-> "float", cls |-> "inf", s |-> sg, m |-> 0, e |-> 0]
        ELSE IF low = <<110, 97, 110>>
        THEN [t |-> "float", cls |-> "nan", s |-> 0, m |-> 0, e |-> 0]
        ELSE IF mOk /\ eOk
        THEN NormDecimal(sg, DigitsVal(ip \o fp, 0), eVal - NumDigits(fp))
        ELSE ValueError

\* str.split(sep)[0] for a two-character separator
RECURSIVE BeforeSep(_, _, _)
BeforeSep(s, sep, i) ==
    IF i + 1 > Len(s) THEN s
    ELSE IF s[i] = sep[1] /\ s[i + 1] = sep[2] THEN SubSeq(s, 1, i - 1)
    ELSE BeforeSep(s, sep, i + 1)

-----------------------------------------------------------------------------
(* FileReader._read_field and FileReader._read_varian.  A result is either *)
(* [t |-> "raise", exc |-> type] or the tuple returned.                    *)

Raise(e) == [t |-> "raise", exc |-> e]

\* lines 164-190
_read_field(lh, p) ==
    LET temp == Split0(SliceFrom(lh, p + 1))
        n    == Len(temp)
        fb   == Slice(lh, p + n + 2, p + n + 6)
    IN  IF ~Cp1252Decodable(SubSeq(temp, 1, n - 1)) THEN Raise("UnicodeDecodeError")
        ELSE IF n = 0 THEN Raise("IndexError")
        ELSE IF ~IsDigit(temp[n]) THEN Raise("ValueError")
        ELSE IF Len(fb) < 4 THEN Raise("struct.error")
        ELSE [t |-> "field",
              name |-> Cp1252Decode(SubSeq(temp, 1, n - 1)),
              unit |-> tables.UNIT_DICT[(temp[n] - 48) + 1],
              val |-> Unpack_f(fb),
              offset |-> n + 5]

\* lines 500-532
_read_varian(lh, p) ==
    LET rest   == SliceFrom(lh, p + 1)
        temp_1 == Split0(rest)
        temp_2 == Split1(rest)
        n      == Len(temp_1) + Len(temp_2)
        fb     == Slice(lh, p + n + 3, p + n + 7)
    IN  IF ~HasZero(rest) THEN Raise("IndexError")
        ELSE IF ~Cp1252Decodable(temp_1) \/ ~Cp1252Decodable(temp_2)
        THEN Raise("UnicodeDecodeError")
        ELSE IF Len(fb) < 4 THEN Raise("struct.error")
        ELSE [t |-> "field",
              name |-> Cp1252Decode(temp_1),
              unit |-> Cp1252Decode(temp_2),
              val |-> Unpack_f(fb),
              offset |-> n + 6]

-----------------------------------------------------------------------------
(* FileReader._read_leemheader: the branches of the tag dispatch.  Each    *)
(* yields the metadata after the branch, the value of the local offset,    *)
(* the exception raised in the branch ("none" if none) and the diagnostics *)
(* logged.  A branch that raises keeps the assignments made before it.     *)

Branch(md, off, e, lg) == [md |-> md, off |-> off, err |-> e, lg |-> lg]

\* struct.unpack("<f", lh[a:a+4]) as a branch-local result
FloatAt(lh, a) ==
    LET fb == Slice(lh, a, a + 4)
    IN  IF Len(fb) < 4 THEN Raise("struct.error") ELSE Unpack_f(fb)

\* lines 210-215: data fields with standard format
TagKnown(lh, p, md, off) ==
    LET r == _read_field(lh, p)
    IN  IF r.t = "raise" THEN Branch(md, off, r.exc, <<>>)
        ELSE Branch(Put(md, r.name, PyList2(r.val, r.unit)), PyInt(r.offset),
                    "none", <<>>)

\* variant of Tag104: the record is taken to be tag + 5 bytes
Tag104_short(lh, p, md, off) ==
    LET fb == Slice(lh, p + 1, p + 5)
    IN  IF Len(fb) < 4 THEN Branch(md, off, "struct.error", <<>>)
        ELSE IF p + 5 >= Len(lh)
        THEN Branch(Put(md, K_Camera_Exposure, PyList2(Unpack_f(fb), U_s)), off,
                    "IndexError", <<>>)
        ELSE Branch(Put(Put(md, K_Camera_Exposure, PyList2(Unpack_f(fb), U_s)),
                        K_Average_Images, PyInt(lh[p + 6])),
                    PyInt(5), "none", <<>>)

\* lines 220-271: camera exposure and average images
Tag104(lh, p, md, off) ==
    LET e   == FloatAt(lh, p + 1)
        md1 == Put(md, K_Camera_Exposure, PyList2(e, U_s))
    IN  IF e.t = "raise" THEN Branch(md, off, e.exc, <<>>)
        ELSE IF p + 5 >= Len(lh) THEN Branch(md1, off, "IndexError", <<>>)
        ELSE Branch(Put(md1, K_Average_Images, PyInt(lh[p + 6])), PyInt(6),
                    "none", <<>>)

\* variant of TagGauge: the record is keyed by its tag byte
TagGauge_bytag(lh, p, md, off) ==
    LET r == _read_varian(lh, p)
    IN  IF r.t = "raise" THEN Branch(md, off, r.exc, <<>>)
        ELSE Branch(Put(md, <<lh[p + 1]>>, PyList2(r.val, r.unit)),
                    PyInt(r.offset), "none", <<>>)

\* lines 274-276: pressure gauges
TagGauge(lh, p, md, off) ==
    LET r == _read_varian(lh, p)
    IN  IF r.t = "raise" THEN Branch(md, off, r.exc, <<>>)
        ELSE Branch(Put(md, r.name, PyList2(r.val, r.unit)), PyInt(r.offset),
                    "none", <<>>)

\* lines 279-287: image title
Tag233(lh, p, md, off) ==
    LET temp == Split0(SliceFrom(lh, p + 1))
    IN  IF ~Cp1252Decodable(temp) THEN Branch(md, off, "UnicodeDecodeError", <<>>)
        ELSE Branch(Put(md, K_Image_Title, PyStr(Cp1252Decode(temp))),
                    PyInt(Len(temp) + 1), "none", <<>>)

\* lines 290-305, 308-323, 434-449: one float with a fixed key and unit
TagFloat(lh, p, md, off, key, unit) ==
    LET v == FloatAt(lh, p + 1)
    IN  IF v.t = "raise" THEN Branch(md, off, v.exc, <<>>)
        ELSE Branch(Put(md, key, PyList2(v, unit)), PyInt(4), "none", <<>>)

\* variant of TagFloatPair: both floats are stored in one list with the unit
TagFloatPair_triple(lh, p, md, off, key1, key2, unit) ==
    LET v1  == FloatAt(lh, p + 1)
        v2  == FloatAt(lh, p + 5)
    IN  IF v1.t = "raise" THEN Branch(md, off, v1.exc, <<>>)
        ELSE IF v2.t = "raise" THEN Branch(md, off, v2.exc, <<>>)
        ELSE Branch(Put(md, key1, [t |-> "list", v |-> <<v1, v2, unit>>]),
                    PyInt(8), "none", <<>>)

\* lines 326-355, 461-487: two floats with fixed keys and one unit
TagFloatPair(lh, p, md, off, key1, key2, unit) ==
    LET v1  == FloatAt(lh, p + 1)
        v2  == FloatAt(lh, p + 5)
        md1 == Put(md, key1, PyList2(v1, unit))
    IN  IF v1.t = "raise" THEN Branch(md, off, v1.exc, <<>>)
        ELSE IF v2.t = "raise" THEN Branch(md1, off, v2.exc, <<>>)
        ELSE Branch(Put(md1, key2, PyList2(v2, unit)), PyInt(8), "none", <<>>)

\* variant of TagByte: one byte is drawn after the tag
TagByte_one(lh, p, md, off, key) ==
    IF p + 1 >= Len(lh) THEN Branch(md, off, "IndexError", <<>>)
    ELSE Branch(Put(md, key, PyInt(lh[p + 2])), PyInt(1), "none", <<>>)

\* lines 358-365, 451-458: one raw byte with a fixed key
TagByte(lh, p, md, off, key) ==
    IF p + 1 >= Len(lh) THEN Branch(md, off, "IndexError", <<>>)
    ELSE Branch(Put(md, key, PyInt(lh[p + 2])), PyInt(2), "none", <<>>)

\* variant of Tag110: the whole string is compared, not its first characters
Tag110_exact(lh, p, md, off) ==
    LET temp    == Split0(SliceFrom(lh, p + 1))
        n       == Len(temp)
        fov_str == Cp1252Decode(temp)
        cal     == FloatAt(lh, p + n + 2)
        md1     == Put(md, K_FOV_cal_factor, cal)
        num     == PyFloat(BeforeSep(fov_str, U_micron, 1))
        md2     == Put(md1, K_LEED, PyBool(FALSE))
    IN  IF ~Cp1252Decodable(temp) THEN Branch(md, off, "UnicodeDecodeError", <<>>)
        ELSE IF cal.t = "raise" THEN Branch(md, off, cal.exc, <<>>)
        ELSE IF fov_str = K_LEED
        THEN Branch(Put(Put(md1, K_LEED, PyBool(TRUE)), K_FOV, PyNone),
                    PyInt(n + 5), "none", <<>>)
        ELSE IF fov_str = <<110, 111, 110, 101>>
        THEN Branch(Put(md1, K_FOV, PyNone), PyInt(n + 5), "none", <<>>)
        ELSE IF fov_str = <<100, 105, 115, 112, 46, 112, 108, 46>>
        THEN Branch(Put(Put(md1, K_FOV, PyNone), K_disp_plane, PyBool(TRUE)),
                    PyInt(n + 5), "none", <<>>)
        ELSE IF num.t = "raise"
        THEN Branch(md2, PyInt(n + 5), "none",
                    <<[kind |-> "fov_unknown_string", tag |-> 110, pos |-> p]>>)
        ELSE Branch(Put(md2, K_FOV, PyList2(num, U_micron)), PyInt(n + 5),
                    "none", <<>>)

\* lines 368-431: field of view
Tag110(lh, p, md, off) ==
    LET temp    == Split0(SliceFrom(lh, p + 1))
        n       == Len(temp)
        fov_str == Cp1252Decode(temp)
        cal     == FloatAt(lh, p + n + 2)
        md1     == Put(md, K_FOV_cal_factor, cal)
        num     == PyFloat(BeforeSep(fov_str, U_micron, 1))
        md2     == Put(md1, K_LEED, PyBool(FALSE))
    IN  IF ~Cp1252Decodable(temp) THEN Branch(md, off, "UnicodeDecodeError", <<>>)
        ELSE IF cal.t = "raise" THEN Branch(md, off, cal.exc, <<>>)
        ELSE IF SubSeq(fov_str, 1, Min(4, n)) = K_LEED
        THEN Branch(Put(Put(md1, K_LEED, PyBool(TRUE)), K_FOV, PyNone),
                    PyInt(n + 5), "none", <<>>)
        ELSE IF SubSeq(fov_str, 1, Min(4, n)) = <<110, 111, 110, 101>>
        THEN Branch(Put(md1, K_FOV, PyNone), PyInt(n + 5), "none", <<>>)
        ELSE IF SubSeq(fov_str, 1, Min(8, n)) = <<100, 105, 115, 112, 46, 112, 108, 46>>
        THEN Branch(Put(Put(md1, K_FOV, PyNone), K_disp_plane, PyBool(TRUE)),
                    PyInt(n + 5), "none", <<>>)
        ELSE IF num.t = "raise"
        THEN Branch(md2, PyInt(n + 5), "none",
                    <<[kind |-> "fov_unknown_string", tag |-> 110, pos |-> p]>>)
        ELSE Branch(Put(md2, K_FOV, PyList2(num, U_micron)), PyInt(n + 5),
                    "none", <<>>)

\* variant of TagUnknown: the tag is kept as a field of its own
TagUnknown_recorded(b, p, md, off) ==
    Branch(Put(md, <<b>>, PyInt(b)), off, "none",
           <<[kind |-> "unknown_tag", tag |-> b, pos |-> p]>>)

\* lines 489-494: unknown field tag; offset keeps whatever it held
TagUnknown(b, p, md, off) ==
    Branch(md, off, "none", <<[kind |-> "unknown_tag", tag |-> b, pos |-> p]>>)

\* lines 206-494: the if/elif chain for a tag other than the sentinel
Dispatch(b, lh, p, md, off) ==
    CASE b \in tables.KNOWN_TAGS -> TagKnown(lh, p, md, off)
      [] b = 104 -> Tag104(lh, p, md, off)
      [] b \in tables.GAUGE_TAGS -> TagGauge(lh, p, md, off)
      [] b = 233 -> Tag233(lh, p, md, off)
      [] b = 243 -> TagFloat(lh, p, md, off, K_MCPscreen, U_V)
      [] b = 244 -> TagFloat(lh, p, md, off, K_MCPchannelplate, U_V)
      [] b = 100 -> TagFloatPair(lh, p, md, off, K_Mitutoyo_X, K_Mitutoyo_Y, U_mm)
      [] b = 242 -> TagByte(lh, p, md, off, K_MirrorState)
      [] b = 110 -> Tag110(lh, p, md, off)
      [] b = 113 -> TagFloat(lh, p, md, off, K_Rotation, U_degree)
      [] b = 240 -> TagByte(lh, p, md, off, K_Spin_up_down)
      [] b = 239 -> TagFloatPair(lh, p, md, off, K_Theta, K_Phi, U_degree)
      [] OTHER -> TagUnknown(b, p, md, off)

\* variant of IsSentinel: the zero byte ends the block
IsSentinel_zero(b) == b = 0

\* lines 206-207: the tag that ends the tagged region
IsSentinel(b) == b = 255

\* variant of Drawn: the iterator is wound back to the tag
Drawn_rewound(it, off) == it

\* lines 198 and 497: the for loop has drawn the tag byte from b_iter, the
\* comprehension of line 497 draws offset more
Drawn(it, off) == it + 1 + off

\* variant of Advance: the tag byte only
Advance_tagonly(pos, off) == pos + 1

\* line 498: self._position += offset + 1
Advance(pos, off) == pos + off + 1

\* lines 198-498: one iteration of "for b in b_iter".  The iterator delivers
\* the byte at iterpos; the branches read the block at self._position.  After
\* the branch, line 497 draws offset more bytes from the iterator (raising
\* UnboundLocalError when offset was never assigned and StopIteration when the
\* block ends first) and line 498 advances self._position.
LeemStep ==
    /\ status = "running" /\ pc = "leem"
    /\ iterpos < Len(leemheader.v)
    /\ LET lh == leemheader.v
           b  == lh[iterpos + 1]
           r  == Dispatch(b, lh, position, metadata, offset)
       IN  IF IsSentinel(b)
           THEN /\ iterpos' = iterpos + 1
                /\ pc' = "image"
                /\ UNCHANGED <<status, err, metadata, offset, position, log>>
           ELSE /\ metadata' = r.md
                /\ log' = log \o r.lg
                /\ offset' = r.off
                /\ IF r.err # "none"
                   THEN /\ status' = "failed" /\ err' = r.err
                        /\ iterpos' = iterpos + 1
                        /\ UNCHANGED <<position, pc>>
                   ELSE IF r.off.t = "unbound"
                   THEN /\ status' = "failed" /\ err' = "UnboundLocalError"
                        /\ iterpos' = iterpos + 1
                        /\ UNCHANGED <<position, pc>>
                   ELSE IF Drawn(iterpos, r.off.v) > Len(lh)
                   THEN /\ status' = "failed" /\ err' = "StopIteration"
                        /\ iterpos' = Len(lh)
                        /\ UNCHANGED <<position, pc>>
                   ELSE /\ iterpos' = Drawn(iterpos, r.off.v)
                        /\ position' = Advance(position, r.off.v)
                        /\ UNCHANGED <<status, err, pc>>
    /\ UNCHANGED <<file, fpos, attachedRecipeSize, att_markupsize, versleemdata,
                   leemheader, rawmarkups, markups, mi, type_marker, data>>
    /\ UNCHANGED <<tables, sched>>
    /\ UNCHANGED batch

\* line 198: the iterator is exhausted and the for loop ends
LeemExhausted ==
    /\ status = "running" /\ pc = "leem"
    /\ iterpos >= Len(leemheader.v)
    /\ pc' = "image"
    /\ UNCHANGED <<file, fpos, status, err, metadata, attachedRecipeSize,
                   att_markupsize, versleemdata, leemheader, position, iterpos,
                   offset, rawmarkups, markups, mi, type_marker, data, log>>
    /\ UNCHANGED <<tables, sched>>
    /\ UNCHANGED batch

-----------------------------------------------------------------------------
(* Image extraction, lines 670-678.                                        *)

\* f.seek(n, 2) on a file of length L: a negative target raises OSError
SeekEnd(L, n) ==
    IF L + n < 0 THEN Raise("OSError") ELSE [t |-> "pos", v |-> L + n]

\* np.fromfile(f, dtype=np.uint16, sep=""): the item count is the number of
\* bytes from the cursor to the end of the file divided by the item size (C
\* division); a negative count cannot be allocated (ValueError).  Items are
\* read in the byte order of the platform, little endian here.
FromFile(f, pos) ==
    LET nbytes == Len(f) - pos
        num    == IF nbytes >= 0 THEN nbytes \div 2 ELSE 0 - ((0 - nbytes) \div 2)
    IN  IF num < 0 THEN Raise("ValueError")
        ELSE [t |-> "flat",
              v |-> [i \in 1..num |-> f[pos + 2 * i - 1] + 256 * f[pos + 2 * i]]]

\* variant of Reshape: the dimensions are taken in the order [w, h]
Reshape_swapped(flat, h, w) ==
    IF h < 0 \/ w < 0 \/ h * w # Len(flat) THEN Raise("ValueError")
    ELSE [t |-> "ndarray", shape |-> <<w, h>>,
          rows |-> [r \in 1..w |-> SubSeq(flat, (r - 1) * h + 1, r * h)]]

\* ndarray.reshape([h, w]) of a flat array: rows of w items.  One dimension
\* may be -1 (inferred) when the other is positive and divides the size.
Reshape(flat, h, w) ==
    LET n  == Len(flat)
        hh == IF h = 0 - 1 /\ w > 0 /\ n % w = 0 THEN n \div w ELSE h
        ww == IF w = 0 - 1 /\ h > 0 /\ n % h = 0 THEN n \div h ELSE w
    IN  IF hh < 0 \/ ww < 0 \/ hh * ww # n THEN Raise("ValueError")
        ELSE [t |-> "ndarray", shape |-> <<hh, ww>>,
              rows |-> [r \in 1..hh |-> SubSeq(flat, (r - 1) * ww + 1, r * ww)]]

\* variant of Flipud: the rows stay in stored order
Flipud_none(a) == a

\* np.flipud: the rows in reverse order
Flipud(a) == [a EXCEPT !.rows = Reverse(a.rows)]

\* variant of ExtractImage: a payload that starts before the file does is read
\* from offset 0 and the grid is filled up with zeros
ExtractImage_padded(f, md) ==
    LET hv  == md[K_height]
        wv  == md[K_width]
        st  == Max(0, Len(f) - 2 * hv.v * wv.v)
        fl  == FromFile(f, Min(st, Len(f)))
        ful == [i \in 1..(hv.v * wv.v) |-> IF i <= Len(fl.v) THEN fl.v[i] ELSE 0]
    IN  IF hv.t # "int" \/ wv.t # "int" THEN Raise("TypeError")
        ELSE IF hv.v < 0 \/ wv.v < 0 THEN Raise("ValueError")
        ELSE [t |-> "ndarray", shape |-> <<hv.v, wv.v>>,
              rows |-> Reverse([r \in 1..hv.v |->
                                  SubSeq(ful, (r - 1) * wv.v + 1, r * wv.v)])]

\* lines 672-678.  metadata["height"] and metadata["width"] may have been
\* overwritten with a list by a tagged field of that name: the product is then
\* a list (or the multiplication itself fails) and f.seek raises TypeError.
ExtractImage(f, md) ==
    LET hv  == md[K_height]
        wv  == md[K_width]
        sk  == SeekEnd(Len(f), 0 - 2 * hv.v * wv.v)
        fl  == FromFile(f, sk.v)
        arr == Reshape(fl.v, hv.v, wv.v)
    IN  IF hv.t # "int" \/ wv.t # "int" THEN Raise("TypeError")
        ELSE IF sk.t = "raise" THEN sk
        ELSE IF fl.t = "raise" THEN fl
        ELSE IF arr.t = "raise" THEN arr
        ELSE Flipud(arr)

\* variant of ImageStage: the payload may be read while the tagged loop runs
ImageStage_early == status = "running" /\ pc \in {"leem", "image"}

\* line 670 is reached when _read_leemheader (line 668) has returned
ImageStage == status = "running" /\ pc = "image"

\* lines 670-678 and the return of __init__
ReadImage ==
    /\ ImageStage
    /\ LET r == ExtractImage(file, metadata)
       IN  IF r.t = "raise"
           THEN /\ status' = "failed" /\ err' = r.exc
                /\ UNCHANGED <<data, pc, fpos>>
           ELSE /\ data' = r
                /\ fpos' = Len(file)
                /\ status' = "done" /\ pc' = "done"
                /\ UNCHANGED err
    /\ UNCHANGED <<file, metadata, attachedRecipeSize, att_markupsize,
                   versleemdata, leemheader, position, iterpos, offset,
                   rawmarkups, markups, mi, type_marker, log>>
    /\ UNCHANGED <<tables, sched>>
    /\ UNCHANGED batch

-----------------------------------------------------------------------------
(* Input files.  A file is laid out the way _read walks it: preamble,      *)
(* optional 128-byte recipe slot, 28-byte image header, then either the    *)
(* 240-byte leem header and 20 spare bytes, or 260 spare bytes, the markup *)
(* block and a leem header of versleemdata bytes; the pixel payload is     *)
(* last.  cut >= 0 truncates the file to its first cut bytes.              *)

\* bounds of the inputs explored
MaxDim == 2

MinDim == 0 - 2

MaxPixels == 5

\* a declared width whose payload is longer than any file built here
WideDim == 200

\* two bytes, little endian, of a 16-bit value given signed or unsigned
H16(v) ==
    LET u == IF v < 0 THEN v + 65536 ELSE v
    IN  <<u % 256, u \div 256>>

\* sample number i (from 0) of a payload: low and high byte differ
Pix(i) == 259 * (i + 1) + 1024

RECURSIVE Payload(_, _)
Payload(i, n) == IF i >= n THEN <<>> ELSE H16(Pix(i)) \o Payload(i + 1, n)

PadTo(b, n) == b \o Zeros(n - Len(b))

\* 32-bit floats: 3.5, 0.2 (nearest binary32), 12.5 and a NaN
F_3_5 == <<0, 0, 96, 64>>
F_0_2 == <<205, 204, 76, 62>>
F_12_5 == <<0, 0, 72, 65>>
F_NaN == <<0, 0, 192, 127>>

\* tick counts, 8 bytes little endian: 0, a date in 2020, the last tick that
\* converts, the first that overflows, and 2^64 - 1
T_Zero == <<0, 0, 0, 0, 0, 0, 0, 0>>
T_2020 == <<128, 59, 109, 131, 143, 25, 214, 1>>
T_Last == Reverse(MaxTicksBE)
T_Over == <<104, 63, 192, 209, 94, 90, 200, 36>>
T_Max == <<255, 255, 255, 255, 255, 255, 255, 255>>

\* names used in the tagged records
N_Foo == <<70, 111, 111>>
N_T == <<84>>
N_Undecodable == <<84, 129>>
N_Degree == <<176, 67>>

\* records of the tagged region as the instrument writes them
FieldRec(tag, name, d, fl) == <<tag>> \o name \o <<48 + d, 0>> \o fl
ExposureRec(fl, m, pad) == <<104>> \o fl \o <<m, pad>>
GaugeRec(tag, label, unit, fl) == <<tag>> \o label \o <<0>> \o unit \o <<0>> \o fl
TitleRec(txt) == <<233>> \o txt \o <<0>>
FloatRec(tag, fl) == <<tag>> \o fl
PairRec(tag, fl1, fl2) == <<tag>> \o fl1 \o fl2
ByteRec(tag, v, pad) == <<tag, v, pad>>
FovRec(txt, fl) == <<110>> \o txt \o <<0>> \o fl

\* records of the markup block
MarkerRec(x, y, radius) == H16(6) \o H16(x) \o H16(y) \o H16(radius) \o Zeros(16)
CrossRec(x0, y0, x1, y1) ==
    H16(3) \o H16(x0) \o H16(y0) \o H16(x1) \o H16(y1) \o Zeros(4)

BaseInput ==
    [w |-> 2, h |-> 2, recipe |-> 0, ticks |-> T_2020, msize |-> 0,
     simple |-> TRUE, markup |-> <<>>, leem |-> <<255>>, npix |-> 4,
     cut |-> 0 - 1]

MkFile(p) ==
    LET leemblk == IF p.simple THEN PadTo(p.leem, 240) ELSE PadTo(p.leem, 3)
        vers    == IF p.simple THEN 2 ELSE Len(leemblk)
        pre     == PadTo(<<85, 75, 83, 79, 70, 84, 50, 48, 48, 49>>, 20)
                   \o H16(104) \o H16(2) \o H16(16) \o Zeros(14)
                   \o H16(p.w) \o H16(p.h) \o H16(1) \o H16(p.recipe) \o Zeros(56)
        slot    == IF p.recipe > 0
                   THEN PadTo([i \in 1..Min(p.recipe, 128) |-> 1 + (i % 250)], 128)
                   ELSE <<>>
        imghdr  == H16(288) \o H16(7) \o H16(0) \o H16(0) \o p.ticks
                   \o H16(0) \o H16(0) \o <<0, 0>> \o H16(p.msize) \o H16(0)
                   \o H16(vers)
        tail    == IF p.simple THEN leemblk \o Zeros(20)
                   ELSE Zeros(260)
                        \o (IF p.msize > 0
                            THEN PadTo(p.markup, 128 * (p.msize \div 128 + 1))
                            ELSE <<>>)
                        \o leemblk
        whole   == pre \o slot \o imghdr \o tail \o Payload(0, p.npix)
    IN  IF p.cut >= 0 THEN SubSeq(whole, 1, Min(p.cut, Len(whole))) ELSE whole

\* declared dimensions of every sign, with matching and other payloads
DimInputs ==
    {[BaseInput EXCEPT !.w = w, !.h = h, !.simple = s,
                       !.npix = IF n = 0 /\ w > 0 /\ h > 0 THEN w * h ELSE n] :
        w \in MinDim..MaxDim, h \in MinDim..MaxDim, s \in BOOLEAN,
        n \in {0, MaxPixels}}

\* files around the length 2*w*h of the declared payload
ShortInputs ==
    {[BaseInput EXCEPT !.w = WideDim, !.h = 1, !.npix = MaxPixels, !.cut = c] :
        c \in (2 * WideDim - 3)..(2 * WideDim + 2)}

RecipeInputs ==
    {[BaseInput EXCEPT !.recipe = r, !.simple = s] :
        r \in {0 - 1, 0, 1, 50, 128}, s \in BOOLEAN}

TickInputs ==
    {[BaseInput EXCEPT !.ticks = t] : t \in {T_Zero, T_2020, T_Last, T_Over, T_Max}}

MarkupBlocks ==
    { Zeros(4) \o MarkerRec(10, 20, 5) \o H16(0),
      Zeros(4) \o CrossRec(1, 2, 3, 4) \o MarkerRec(10, 20, 5) \o H16(0),
      Zeros(4) \o MarkerRec(10, 20, 5) \o H16(9) \o MarkerRec(1, 1, 1),
      Zeros(4) \o H16(0),
      Zeros(4) \o MarkerRec(10, 20, 5) \o MarkerRec(30, 40, 7) \o H16(0),
      Zeros(4) \o MarkerRec(10, 20, 5) \o CrossRec(1, 2, 3, 4)
          \o MarkerRec(30, 40, 7) \o CrossRec(5, 6, 7, 8) \o H16(0),
      Zeros(4) \o CrossRec(1, 2, 3, 4) \o H16(0),
      Zeros(4) \o H16(9) \o MarkerRec(10, 20, 5) \o H16(0),
      Zeros(4) \o CrossRec(1, 2, 3, 4) \o H16(7) \o CrossRec(5, 6, 7, 8) \o H16(0),
      Zeros(4) \o MarkerRec(1, 2, 3) \o MarkerRec(4, 5, 6) \o MarkerRec(7, 8, 9)
          \o MarkerRec(10, 11, 12) \o MarkerRec(13, 14, 15)
          \o MarkerRec(16, 17, 18) \o H16(0) }

MarkupInputs ==
    {[BaseInput EXCEPT !.msize = m, !.simple = s, !.markup = b] :
        m \in {0 - 1, 0, 5, 127, 128, 130}, s \in BOOLEAN, b \in MarkupBlocks}

\* one standard field per block: every unit digit, several tags and names
FieldBlocks ==
    {FieldRec(tag, name, d, fl) \o <<255>> :
        tag \in {210, 11, 38}, name \in {N_Foo, <<>>, N_T, K_width},
        d \in 0..9, fl \in {F_3_5, F_0_2}}

ExposureBlocks ==
    {ExposureRec(fl, m, pad) \o rest :
        fl \in {F_0_2, F_3_5}, m \in {0, 3, 255}, pad \in {0, 255},
        rest \in {<<>>, <<255>>, FieldRec(210, N_Foo, 1, F_3_5) \o <<255>>}}

OtherBlocks ==
    { <<255>>,
      <<255, 210, 70>>,
      <<1, 255>>,
      FieldRec(210, N_Foo, 1, F_3_5) \o <<1, 0, 0, 0, 0, 0, 0, 0, 0, 0, 0, 255>>,
      FieldRec(210, N_Foo, 1, F_3_5),
      FieldRec(210, N_Undecodable, 1, F_3_5) \o <<255>>,
      FieldRec(210, N_Foo, 1, F_NaN) \o <<255>>,
      <<210, 70, 111, 111, 0>> \o F_3_5 \o <<255>>,
      <<210, 0>> \o F_3_5 \o <<255>>,
      <<104, 205, 204, 76, 62, 0>>,
      <<104, 205, 204>>,
      GaugeRec(106, N_Foo, N_T, F_3_5) \o <<255>>,
      GaugeRec(235, N_Foo, N_T, F_3_5) \o GaugeRec(236, N_T, N_Degree, F_0_2)
          \o GaugeRec(237, K_height, <<>>, F_0_2) \o <<255>>,
      <<106, 70, 111, 111>>,
      TitleRec(N_Foo) \o <<255>>,
      FloatRec(243, F_3_5) \o FloatRec(244, F_0_2) \o FloatRec(113, F_12_5) \o <<255>>,
      PairRec(100, F_3_5, F_0_2) \o PairRec(239, F_0_2, F_12_5) \o <<255>>,
      ByteRec(242, 1, 0) \o ByteRec(240, 255, 0) \o <<255>>,
      ByteRec(242, 1, 255) \o <<255>>,
      FovRec(K_LEED, F_3_5) \o <<255>>,
      FovRec(<<110, 111, 110, 101>>, F_3_5) \o <<255>>,
      FovRec(<<100, 105, 115, 112, 46, 112, 108, 46>>, F_3_5) \o <<255>>,
      FovRec(<<49, 50, 46, 53, 181, 109>>, F_3_5) \o <<255>>,
      FovRec(<<97, 98, 99>>, F_3_5) \o <<255>>,
      FovRec(K_LEED \o <<129>>, F_3_5) \o <<255>>,
      FovRec(K_LEED, <<0, 0>>),
      ExposureRec(F_0_2, 3, 0) \o <<1, 255>>,
      ByteRec(242, 1, 0) \o <<1, 9, 9, 255>>,
      ByteRec(242, 1, 0) \o <<1, 9, 9>> \o FieldRec(210, N_Foo, 1, F_3_5) \o <<255>>,
      <<1, 210, 255>> }

\* field-of-view strings: "LEED", "none" and "disp.pl.", bare and with a tail,
\* numbers with and without the micron marker, and strings that are none of
\* these
S_none == <<110, 111, 110, 101>>

S_disp_pl == <<100, 105, 115, 112, 46, 112, 108, 46>>

S_12_5_um == <<49, 50, 46, 53, 181, 109>>

FovTexts ==
    { K_LEED, K_LEED \o <<32, 53, 48>>, S_none, S_none \o <<49>>,
      S_disp_pl, S_disp_pl \o <<50>>, S_12_5_um, <<53, 181, 109>>,
      S_12_5_um \o <<32, 120>>, <<49, 50, 46, 53>>, <<97, 98, 99>>,
      <<76, 69, 69>>, <<>> }

\* one field-of-view record, alone or followed by a second one
FovBlocks ==
    {FovRec(a, fl) \o rest :
        a \in FovTexts, fl \in {F_3_5, F_0_2},
        rest \in {<<255>>}
                 \cup {FovRec(b, F_12_5) \o <<255>> : b \in {K_LEED, S_none, S_12_5_um}}}

\* one gauge record for every gauge tag, with several labels and units
GaugeBlocks ==
    {GaugeRec(tag, label, unit, F_3_5) \o rest :
        tag \in GAUGE_TAGS, label \in {N_Foo, <<>>, K_height},
        unit \in {N_T, <<>>, N_Degree}, rest \in {<<>>, <<255>>}}

\* mirror-state and spin-state records: in a row, with every kind of byte
\* after the value, and as the last two bytes of the block
ByteBlocks ==
    {ByteRec(t1, v, pad) \o ByteRec(t2, 7, 0) \o <<255>> :
        t1 \in {242, 240}, t2 \in {242, 240}, v \in {0, 1, 255},
        pad \in {0, 240, 255}}
    \cup {ByteRec(240, 7, 9) \o <<t, 1>> : t \in {242, 240}}

LeemInputs ==
    {[BaseInput EXCEPT !.leem = b, !.simple = s] :
        b \in FieldBlocks \cup ExposureBlocks \cup OtherBlocks \cup FovBlocks
                 \cup GaugeBlocks \cup ByteBlocks,
        s \in BOOLEAN}

\* the base files of both layouts cut at every kind of place
CutInputs ==
    {[BaseInput EXCEPT !.cut = c, !.simple = s, !.msize = m,
                       !.markup = Zeros(4) \o MarkerRec(10, 20, 5) \o H16(0),
                       !.w = 1, !.h = 1] :
        c \in {0, 10, 20, 21, 40, 43, 47, 48, 104, 105, 112, 119, 120, 124,
               125, 126, 130, 131, 132, 133, 200, 371, 372, 391, 392, 393,
               396, 400, 420, 519, 520, 521, 522},
        s \in BOOLEAN, m \in {0, 5}}

\* markup sizes at both ends of 1..32767 and around the multiples of 128
MarkupSizeInputs ==
    {[BaseInput EXCEPT !.msize = m, !.simple = FALSE,
                       !.markup = Zeros(4) \o MarkerRec(10, 20, 5) \o H16(0)] :
        m \in {1, 129, 255, 256, 32767}}

Inputs ==
    DimInputs \cup ShortInputs \cup RecipeInputs \cup TickInputs
    \cup MarkupInputs \cup MarkupSizeInputs \cup LeemInputs \cup CutInputs

\* the file f with the layout selector (offset 130) set to v
WithSelector(f, v) ==
    [i \in 1..Len(f) |->
        IF i = 131 THEN H16(v)[1] ELSE IF i = 132 THEN H16(v)[2] ELSE f[i]]

\* files of both layouts with every kind of selector value written over
\* theirs: negative, 0, 1, just above 2, and larger than what follows
SelectorFiles ==
    {WithSelector(MkFile(p), v) :
        p \in {BaseInput,
                [BaseInput EXCEPT !.simple = FALSE,
                                  !.leem = ExposureRec(F_0_2, 3, 0) \o <<255>>],
                [BaseInput EXCEPT !.simple = FALSE, !.msize = 5,
                                  !.markup = Zeros(4) \o MarkerRec(10, 20, 5)
                                             \o H16(0)]},
        v \in {0 - 1, 0, 1, 3, 5, 300}}

Files ==
    {MkFile(p) : p \in Inputs} \cup SelectorFiles

-----------------------------------------------------------------------------
(* The decode of one file: FileReader(filepath).                           *)

\* the three module-level tables as the import of the module leaves them
Tables ==
    [KNOWN_TAGS |-> KNOWN_TAGS, GAUGE_TAGS |-> GAUGE_TAGS, UNIT_DICT |-> UNIT_DICT]

\* __init__, lines 159-162, up to the call of _read: the state of a new
\* FileReader for the file f, as a record of the variables of one decode
Fresh(f) ==
    [file |-> f, fpos |-> 0, pc |-> "preamble", status |-> "running",
     err |-> "none", metadata |-> EmptyDict, attachedRecipeSize |-> 0,
     att_markupsize |-> 0, versleemdata |-> 0, leemheader |-> Unset,
     position |-> 0, iterpos |-> 0, offset |-> Unbound, rawmarkups |-> Unset,
     markups |-> Unset, mi |-> 0, type_marker |-> 0, data |-> Unset]

\* no other object exists
Alone == [phase |-> "single"]

\* no batch tool runs
NoBatch == [state |-> "none"]

\* __init__, lines 159-162, up to the call of _read
Init ==
    /\ file \in Files
    /\ fpos = 0
    /\ pc = "preamble"
    /\ status = "running"
    /\ err = "none"
    /\ metadata = EmptyDict
    /\ attachedRecipeSize = 0
    /\ att_markupsize = 0
    /\ versleemdata = 0
    /\ leemheader = Unset
    /\ position = 0
    /\ iterpos = 0
    /\ offset = Unbound
    /\ rawmarkups = Unset
    /\ markups = Unset
    /\ mi = 0
    /\ type_marker = 0
    /\ data = Unset
    /\ log = <<>>
    /\ tables = Tables
    /\ sched = Alone
    /\ batch = NoBatch

Next ==
    \/ ReadPreamble
    \/ ReadRecipe
    \/ ReadImageHeader
    \/ ReadLayout
    \/ MarkupsBegin
    \/ MarkupStep
    \/ MarkupsReturn
    \/ ReadLeemBlock
    \/ LeemStep
    \/ LeemExhausted
    \/ ReadImage

Spec == Init /\ [][Next]_vars

-----------------------------------------------------------------------------
(* Several FileReader objects in one process, one per file, each decoded   *)
(* by its own thread.  The variables of a decode are those of the thread   *)
(* that runs; the objects of the suspended threads are kept in sched.      *)
(* Each file is first decoded alone, which gives the result to compare     *)
(* with, and then all are decoded together under every interleaving of     *)
(* the stages.                                                             *)

\* number of FileReader objects
Readers == 2

\* the files: a simple layout with two unknown tags between its fields, the
\* other layout with an unknown marker and a block without sentinel, the
\* other layout with markers and cross-sections, and a file that fails
ConcFiles ==
    << MkFile([BaseInput EXCEPT
                 !.leem = ByteRec(242, 1, 0) \o <<1, 9, 9>> \o ByteRec(240, 7, 0)
                          \o <<1, 9, 9>> \o FieldRec(210, N_Foo, 1, F_3_5)
                          \o <<255>>]),
       MkFile([BaseInput EXCEPT
                 !.simple = FALSE, !.msize = 5,
                 !.markup = Zeros(4) \o MarkerRec(10, 20, 5) \o H16(9),
                 !.leem = GaugeRec(235, N_Foo, N_T, F_3_5)
                          \o FovRec(S_12_5_um, F_0_2)]),
       MkFile([BaseInput EXCEPT
                 !.simple = FALSE, !.msize = 130, !.w = 1, !.npix = 2,
                 !.markup = Zeros(4) \o MarkerRec(10, 20, 5)
                            \o CrossRec(1, 2, 3, 4) \o H16(0),
                 !.leem = ExposureRec(F_0_2, 3, 0)
                          \o PairRec(100, F_3_5, F_0_2) \o <<255>>]),
       MkFile([BaseInput EXCEPT !.leem = <<1, 255>>]) >>

\* the selections of Readers files, in the order of ConcFiles
ConcSelections ==
    {sel \in [1..Readers -> 1..Len(ConcFiles)] :
        \A i \in 1..(Readers - 1) : sel[i] < sel[i + 1]}

\* the object of the running thread, lines 149-157, with the locals of its
\* calls
Instance ==
    [file |-> file, fpos |-> fpos, pc |-> pc, status |-> status, err |-> err,
     metadata |-> metadata, attachedRecipeSize |-> attachedRecipeSize,
     att_markupsize |-> att_markupsize, versleemdata |-> versleemdata,
     leemheader |-> leemheader, position |-> position, iterpos |-> iterpos,
     offset |-> offset, rawmarkups |-> rawmarkups, markups |-> markups,
     mi |-> mi, type_marker |-> type_marker, data |-> data]

\* the thread of the object o runs next: every attribute and local is o's own
Load(o) ==
    /\ file' = o.file /\ fpos' = o.fpos /\ pc' = o.pc
    /\ status' = o.status /\ err' = o.err /\ metadata' = o.metadata
    /\ attachedRecipeSize' = o.attachedRecipeSize
    /\ att_markupsize' = o.att_markupsize
    /\ versleemdata' = o.versleemdata
    /\ leemheader' = o.leemheader /\ position' = o.position
    /\ iterpos' = o.iterpos /\ offset' = o.offset
    /\ rawmarkups' = o.rawmarkups /\ markups' = o.markups
    /\ mi' = o.mi /\ type_marker' = o.type_marker /\ data' = o.data

\* variant of Resume: _position is one attribute of the class, shared by all
\* objects
Resume_shared_position(o) ==
    /\ file' = o.file /\ fpos' = o.fpos /\ pc' = o.pc
    /\ status' = o.status /\ err' = o.err /\ metadata' = o.metadata
    /\ attachedRecipeSize' = o.attachedRecipeSize
    /\ att_markupsize' = o.att_markupsize
    /\ versleemdata' = o.versleemdata
    /\ leemheader' = o.leemheader /\ position' = position
    /\ iterpos' = o.iterpos /\ offset' = o.offset
    /\ rawmarkups' = o.rawmarkups /\ markups' = o.markups
    /\ mi' = o.mi /\ type_marker' = o.type_marker /\ data' = o.data

\* lines 149-162: a suspended thread finds the attributes of its object (all
\* are slots of the instance, assigned through self) and its locals as it
\* left them
Resume(o) == Load(o)

\* what a decode leaves: the exception, or the attributes of the object
Result(o) ==
    [status |-> o.status, err |-> o.err, metadata |-> o.metadata,
     data |-> o.data, markups |-> o.markups]

Finished(o) == o.status \in {"done", "failed"}

InitConc ==
    \E sel \in ConcSelections :
        /\ sched = [phase |-> "alone", files |-> [i \in 1..Readers |-> ConcFiles[sel[i]]],
                    cur |-> 1, others |-> <<>>, solo |-> <<>>]
        /\ file = ConcFiles[sel[1]]
        /\ fpos = 0
        /\ pc = "preamble"
        /\ status = "running"
        /\ err = "none"
        /\ metadata = EmptyDict
        /\ attachedRecipeSize = 0
        /\ att_markupsize = 0
        /\ versleemdata = 0
        /\ leemheader = Unset
        /\ position = 0
        /\ iterpos = 0
        /\ offset = Unbound
        /\ rawmarkups = Unset
        /\ markups = Unset
        /\ mi = 0
        /\ type_marker = 0
        /\ data = Unset
        /\ log = <<>>
        /\ tables = Tables
        /\ batch = NoBatch

\* a decode alone has ended: its result is kept and the next file is decoded
\* alone; after the last one a new FileReader is made for every file and the
\* thread of the first one runs
Collect ==
    /\ sched.phase = "alone" /\ Finished(Instance)
    /\ LET k  == sched.cur
           s2 == Append(sched.solo, Result(Instance))
       IN  IF k < Readers
           THEN /\ Load(Fresh(sched.files[k + 1]))
                /\ sched' = [sched EXCEPT !.cur = k + 1, !.solo = s2]
           ELSE /\ Load(Fresh(sched.files[1]))
                /\ sched' = [sched EXCEPT
                                !.phase = "together", !.cur = 1, !.solo = s2,
                                !.others = [i \in 2..Readers |-> Fresh(sched.files[i])]]
    /\ log' = <<>>
    /\ UNCHANGED tables
    /\ UNCHANGED batch

\* the interpreter switches to the thread of object i, which has not ended
Switch(i) ==
    /\ sched.phase = "together"
    /\ i \in DOMAIN sched.others
    /\ sched.others[i].status = "running"
    /\ Resume(sched.others[i])
    /\ sched' = [sched EXCEPT
                    !.cur = i,
                    !.others = [j \in (DOMAIN sched.others \ {i}) \cup {sched.cur} |->
                                  IF j = sched.cur THEN Instance ELSE sched.others[j]]]
    /\ UNCHANGED <<log, tables, batch>>

NextConc ==
    \/ ReadPreamble
    \/ ReadRecipe
    \/ ReadImageHeader
    \/ ReadLayout
    \/ MarkupsBegin
    \/ MarkupStep
    \/ MarkupsReturn
    \/ ReadLeemBlock
    \/ LeemStep
    \/ LeemExhausted
    \/ ReadImage
    \/ Collect
    \/ \E i \in 1..Readers : Switch(i)

SpecConc == InitConc /\ [][NextConc]_vars

-----------------------------------------------------------------------------
(* The batch tools: Application.extract_metadata of                        *)
(* Utilities/UI_metadata_extractor.py and the script of                    *)
(* gui/extract_metadata.py.  Both walk the list of files of a folder,      *)
(* build a DATImage for each and write its report next to it.  DATImage is *)
(* the class of UI_metadata_extractor.py; the files of the batch have a    *)
(* tagged block that is empty or starts with the sentinel, so the loop of  *)
(* its lines 197-369 ends without decoding a field.                        *)

\* longest list of files
MaxBatch == 3

K_recipe == <<114, 101, 99, 105, 112, 101>>

\* UI_metadata_extractor.py lines 411-413: the keys the form asks for
FormKeys ==
    << K_Camera_Exposure, K_Average_Images,
       <<69, 109, 105, 115, 115, 105, 111, 110, 32, 67, 117, 114, 114, 46>>,
       <<77, 67, 72>>, K_Mitutoyo_X, K_Mitutoyo_Y,
       <<79, 98, 106, 101, 99, 116, 105, 118, 101>>, <<80, 67, 72>>, K_FOV,
       K_Rotation,
       <<80, 114, 111, 106, 101, 99, 116, 105, 118, 101, 32, 51>>,
       <<83, 97, 109, 112, 108, 101, 32, 84, 101, 109, 112, 46>>,
       <<83, 116, 97, 114, 116, 32, 86, 111, 108, 116, 97, 103, 101>> >>

\* d without the key k
Drop(d, k) == [x \in (DOMAIN d) \ {k} |-> d[x]]

\* UI_metadata_extractor.py lines 126-377, DATImage._load_file: the fixed
\* header (the image count goes to self.noimg, not to the metadata), the
\* recipe, the image header, the tagged block of 256 bytes for selector 2 and
\* of versleemdata bytes after 388 skipped ones otherwise, and the image
DATImage(f) ==
    LET pre   == ReadFields(f, PreambleFields, 0, EmptyDict)
        md1   == Drop(pre.md, K_noimg)
        n     == md1[K_attachedRecipeSize].v
        rb    == FRead(f, pre.pos, n)
        md2   == IF n # 0 THEN Put(md1, K_recipe, PyBytes(rb)) ELSE md1
        p2    == IF n # 0 THEN pre.pos + Len(rb) + (128 - n) ELSE pre.pos
        ih    == ReadFields(f, ImageHeaderFields, p2, md2)
        vb    == FRead(f, ih.pos, 2)
        vers  == Unpack_h(vb)
        hdr   == IF vers = 2 THEN FRead(f, ih.pos + 2, 256)
                 ELSE FRead(f, ih.pos + 2 + 388, vers)
        img   == ExtractImage(f, ih.md)
    IN  IF pre.err # "none" THEN Raise(pre.err)
        ELSE IF p2 < 0 THEN Raise("OSError")
        ELSE IF ih.err # "none" THEN Raise(ih.err)
        ELSE IF Len(vb) < 2 THEN Raise("struct.error")
        ELSE CASE hdr = <<>> \/ hdr[1] = 255 ->
                    IF img.t = "raise" THEN img
                    ELSE [t |-> "image", metadata |-> ih.md, data |-> img]

\* extractMetaData, lines 38-54 (gui/extract_metadata.py lines 33-49): the
\* report file is opened and the time stamp written, then one line for every
\* key whose value is an int or a list of two; a key of the list that the
\* metadata does not have raises KeyError and leaves the report unfinished
extractMetaData(md, keys) ==
    LET ks      == IF keys = "all" THEN DOMAIN md
                   ELSE {keys[i] : i \in 1..Len(keys)}
        written == {k \in ks \cap DOMAIN md :
                      \/ md[k].t = "int"
                      \/ md[k].t = "list" /\ Len(md[k].v) = 2}
    IN  IF K_timestamp \notin DOMAIN md THEN Raise("KeyError")
        ELSE IF ks \subseteq DOMAIN md
        THEN [t |-> "report", stamp |-> md[K_timestamp], keys |-> written]
        ELSE Raise("KeyError")

\* files of a folder: two that DATImage decodes, one of 10 bytes, one cut
\* inside the image header and one with a tick count that does not convert
BatchFiles ==
    { MkFile(BaseInput),
      MkFile([BaseInput EXCEPT !.w = 1, !.npix = 2]),
      MkFile([BaseInput EXCEPT !.cut = 10]),
      MkFile([BaseInput EXCEPT !.cut = 125]),
      MkFile([BaseInput EXCEPT !.ticks = T_Max]) }

BatchLists ==
    UNION {[1..n -> BatchFiles] : n \in 1..MaxBatch}

\* the variables of the decoder model, which the batch tool does not use
decoderVars ==
    <<file, fpos, pc, status, err, metadata, attachedRecipeSize,
      att_markupsize, versleemdata, leemheader, position, iterpos, offset,
      rawmarkups, markups, mi, type_marker, data, log, tables, sched>>

\* lines 416-418 (gui: 57-59): the list of files is made and the loop starts;
\* the form passes its list of keys, the script passes none
InitBatch ==
    /\ batch \in {[state |-> "running", stage |-> "decode", files |-> fs,
                    keys |-> ks, i |-> 1, im |-> Unset, reports |-> <<>>,
                    err |-> "none"] :
                      fs \in BatchLists, ks \in {"all", FormKeys}}
    /\ file = <<>>
    /\ fpos = 0
    /\ pc = "preamble"
    /\ status = "running"
    /\ err = "none"
    /\ metadata = EmptyDict
    /\ attachedRecipeSize = 0
    /\ att_markupsize = 0
    /\ versleemdata = 0
    /\ leemheader = Unset
    /\ position = 0
    /\ iterpos = 0
    /\ offset = Unbound
    /\ rawmarkups = Unset
    /\ markups = Unset
    /\ mi = 0
    /\ type_marker = 0
    /\ data = Unset
    /\ log = <<>>
    /\ tables = Tables
    /\ sched = Alone

\* line 420 (gui: 61): im = DATImage(file).  Nothing catches an exception of
\* the constructor: it leaves the loop
BatchDecode ==
    /\ batch.state = "running" /\ batch.stage = "decode"
    /\ batch.i <= Len(batch.files)
    /\ LET r == DATImage(batch.files[batch.i])
       IN  IF r.t = "raise"
           THEN batch' = [batch EXCEPT !.state = "raised", !.err = r.exc]
           ELSE batch' = [batch EXCEPT !.stage = "report", !.im = r]
    /\ UNCHANGED decoderVars

\* line 421 (gui: 62): extractMetaData(file_log, im.metadata, keys), then the
\* next file
BatchReport ==
    /\ batch.state = "running" /\ batch.stage = "report"
    /\ LET r == extractMetaData(batch.im.metadata, batch.keys)
       IN  IF r.t = "raise"
           THEN batch' = [batch EXCEPT !.state = "raised", !.err = r.exc]
           ELSE batch' = [batch EXCEPT
                            !.stage = "decode", !.i = @ + 1, !.im = Unset,
                            !.reports = Append(@, [of |-> batch.i, report |-> r])]
    /\ UNCHANGED decoderVars

\* line 418 (gui: 59): the list is exhausted
BatchEnd ==
    /\ batch.state = "running" /\ batch.stage = "decode"
    /\ batch.i > Len(batch.files)
    /\ batch' = [batch EXCEPT !.state = "finished"]
    /\ UNCHANGED decoderVars

NextBatch ==
    \/ BatchDecode
    \/ BatchReport
    \/ BatchEnd

SpecBatch == InitBatch /\ [][NextBatch]_vars

-----------------------------------------------------------------------------
(* Properties.  What a file declares is read off its bytes, independently  *)
(* of the decoder's variables.                                             *)

\* signed 16-bit little-endian value at byte offset a (from 0) of the file
DeclaredAt(a) ==
    LET u == file[a + 1] + 256 * file[a + 2]
    IN  IF u >= 32768 THEN u - 65536 ELSE u

DeclaredWidth == DeclaredAt(40)

DeclaredHeight == DeclaredAt(42)

DeclaredRecipeSize == DeclaredAt(46)

\* offsets of the fields of the image header in a file without recipe slot
DeclaredMarkupSize == DeclaredAt(126)

DeclaredSelector == DeclaredAt(130)

HasDimensions == Len(file) >= 44

\* unsigned 16-bit little-endian sample at byte offset a (from 0) of the file
SampleAt(a) == file[a + 1] + 256 * file[a + 2]

\* C1: a decode that succeeds on a file declaring width w > 0 and height
\* h > 0 yields a grid of exactly h rows of w samples each (w*h samples).
C1_GridShape ==
    (status = "done" /\ DeclaredWidth > 0 /\ DeclaredHeight > 0)
        => /\ data.t = "ndarray"
           /\ data.shape = <<DeclaredHeight, DeclaredWidth>>
           /\ Len(data.rows) = DeclaredHeight
           /\ \A r \in 1..Len(data.rows) : Len(data.rows[r]) = DeclaredWidth

\* a decode of a file declaring a 1-wide, 2-high image has succeeded
C1_Witness ==
    /\ status = "done" /\ DeclaredWidth = 1 /\ DeclaredHeight = 2
    /\ Len(data.rows) = 2

\* C2: in a decoded file of length L, grid entry (r, c) is the unsigned
\* 16-bit little-endian sample at byte offset L - 2wh + 2((h-1-r)w + c):
\* the payload is the last 2wh bytes whatever precedes it, rows reversed.
C2_PixelAt ==
    (status = "done" /\ DeclaredWidth > 0 /\ DeclaredHeight > 0)
        => LET w == DeclaredWidth
               h == DeclaredHeight
               L == Len(file)
           IN  \A r \in 0..(h - 1) : \A c \in 0..(w - 1) :
                  data.rows[r + 1][c + 1]
                      = SampleAt(L - 2 * w * h + 2 * ((h - 1 - r) * w + c))

\* a 2x2 image was decoded from a file of the other layout with a markup
\* block, whose payload starts later than in the simple layout
C2_Witness ==
    /\ status = "done" /\ DeclaredWidth = 2 /\ DeclaredHeight = 2
    /\ rawmarkups # Unset
    /\ Len(file) > 392 + 8
    /\ data.rows[1][1] # data.rows[2][1]

\* C3: a file with fewer than 2*w*h bytes never yields a FileReader object
\* nor a pixel grid.
C3_ShortFileFails ==
    (HasDimensions /\ Len(file) < 2 * DeclaredWidth * DeclaredHeight)
        => (status # "done" /\ data = Unset)

\* the image extraction has failed on a file one byte shorter than 2*w*h
C3_Witness ==
    /\ status = "failed" /\ pc = "image" /\ err = "OSError"
    /\ Len(file) = 2 * DeclaredWidth * DeclaredHeight - 1

\* C4: a declared width or height <= 0 makes the decode fail; no decoded
\* file is returned.
C4_NonPositiveDimsFail ==
    (HasDimensions /\ (DeclaredWidth <= 0 \/ DeclaredHeight <= 0))
        => status # "done"

\* C5: no decode goes on with a block shorter than the read asked for: a
\* finished decode has a leem header of 240 bytes (simple layout) or of
\* selector-many bytes, and a markup block of the full rounded size.
C5_NoShortBlock ==
    status = "done"
        => /\ Len(leemheader.v) = (IF versleemdata <= 2 THEN 240 ELSE versleemdata)
           /\ rawmarkups # Unset
                => Len(rawmarkups.v) = 128 * (att_markupsize \div 128 + 1)

\* offset at which the leem-header region begins behind a 128-byte recipe
\* slot: 104 + 128 + 28
LeemRegionOffset == 104 + 128 + 28

\* C6: whatever the recipe size in 0..128, the fixed-header parser gets to
\* the leem-header region and has the cursor at one and the same offset there.
C6_SameOffset ==
    /\ (status = "running" /\ pc = "layout") => fpos = LeemRegionOffset
    /\ (Len(file) >= LeemRegionOffset /\ DeclaredRecipeSize \in 0..128)
          => ~(status = "failed" /\ pc \in {"recipe"})

\* C7: with a recipe size > 0 the decode does not fail at the recipe, the
\* recipe payload kept is the recipe-size bytes at offset 104 and isize is
\* read from offset 104 + 128.
C7_RecipeRead ==
    (Len(file) >= 104 + 128 /\ DeclaredRecipeSize \in 1..128)
        => /\ ~(status = "failed" /\ pc = "recipe")
           /\ (status = "running" /\ pc = "imghdr") => fpos = 104 + 128

\* C8 as stated: every file declaring a non-zero markup size has its markup
\* block read and decoded, in the simple layout too.
C8_AnyLayout ==
    (pc \in {"leem", "image", "done"} /\ DeclaredMarkupSize # 0)
        => (rawmarkups # Unset /\ markups # Unset)

\* C8: the markup block is read and decoded exactly for the files of the
\* other layout (selector > 2) that declare a positive markup size; it is
\* then the 128*(m div 128 + 1) bytes (or what the file has of them) that
\* follow the 260 skipped bytes.  In the simple layout, and for a size <= 0,
\* no markup block is read and self.markups is never assigned.
C8_MarkupsRead ==
    /\ (rawmarkups # Unset \/ markups # Unset)
          => (DeclaredSelector > 2 /\ DeclaredMarkupSize > 0)
    /\ (pc \in {"leemblock", "leem", "image", "done"}
            /\ DeclaredSelector > 2 /\ DeclaredMarkupSize > 0)
          => /\ markups.t = "dict"
             /\ rawmarkups.t = "bytes"
             /\ rawmarkups.v
                  = SubSeq(file, 393,
                           Min(Len(file),
                               392 + 128 * (DeclaredMarkupSize \div 128 + 1)))

\* a file of the other layout with markup size 5 was decoded and its marker kept
C8_Witness ==
    /\ status = "done" /\ DeclaredSelector > 2 /\ DeclaredMarkupSize = 5
    /\ Len(rawmarkups.v) = 128
    /\ "marker" \in DOMAIN markups.v

\* the unit table as the specification gives it: (none, V, mA, A, °C, K, mV,
\* pA, nA, µA)
SpecUnits ==
    << <<>>, <<86>>, <<109, 65>>, <<65>>, <<176, 67>>, <<75>>,
       <<109, 86>>, <<112, 65>>, <<110, 65>>, <<181, 65>> >>

\* a standard field is at the cursor: a tag of KNOWN_TAGS, name bytes without
\* zero, one ASCII digit, the terminator and four more bytes
StdFieldAtCursor ==
    /\ status = "running" /\ pc = "leem"
    /\ iterpos < Len(leemheader.v)
    /\ leemheader.v[iterpos + 1] \in KNOWN_TAGS
    /\ LET rest == SliceFrom(leemheader.v, iterpos + 1)
           z    == FirstZero(rest)
       IN  /\ z >= 2
           /\ rest[z - 1] \in 48..57
           /\ Len(rest) >= z + 4

\* C9: the step on a standard field with name N, digit d and float v records
\* metadata[N] = (v, unit d of the specification's table), N without the digit.
C9_StandardField ==
    [][StdFieldAtCursor =>
          LET rest == SliceFrom(leemheader.v, iterpos + 1)
              z    == FirstZero(rest)
              N    == SubSeq(rest, 1, z - 2)
              key  == IF Cp1252Decodable(N) THEN Cp1252Decode(N) ELSE N
              d    == rest[z - 1] - 48
              v    == Unpack_f(SubSeq(rest, z + 1, z + 4))
          IN  /\ status' = "running"
              /\ key \in DOMAIN metadata'
              /\ metadata'[key] = PyList2(v, SpecUnits[d + 1])]_vars

\* the value 0.2 as a binary32: 13421773 * 2^-26
Float_0_2 == [t |-> "float", cls |-> "finite", s |-> 0, m |-> 13421773, e |-> 0 - 26]

\* a complete tag-104 record is at the cursor: tag, four float bytes, the
\* mode byte and the seventh byte the record advances over
ExposureAtCursor ==
    /\ status = "running" /\ pc = "leem"
    /\ iterpos + 7 <= Len(leemheader.v)
    /\ leemheader.v[iterpos + 1] = 104

\* C10: the step on a tag-104 record with exposure e and mode byte m records
\* metadata["Camera Exposure"] = (e, "s") and metadata["Average Images"] = m
\* as a bare integer; the mode byte, 255 included, is not taken as a tag: the
\* loop goes on and the next tag is the byte after the record.
C10_Exposure ==
    [][ExposureAtCursor =>
          LET p  == iterpos
              fb == SubSeq(leemheader.v, p + 2, p + 5)
              m  == leemheader.v[p + 6]
          IN  /\ status' = "running" /\ pc' = "leem"
              /\ metadata'[K_Camera_Exposure] = PyList2(Unpack_f(fb), U_s)
              /\ (fb = F_0_2 => metadata'[K_Camera_Exposure].v[1] = Float_0_2)
              /\ metadata'[K_Average_Images] = PyInt(m)
              /\ iterpos' = p + 7
              /\ position' = iterpos']_vars

\* a record with exposure 0.2 and mode byte 255 was decoded and the loop is
\* at the tag that follows it
C10_Witness ==
    /\ status = "running" /\ pc = "leem" /\ position = 7 /\ iterpos = 7
    /\ leemheader.v[1] = 104 /\ leemheader.v[6] = 255
    /\ metadata[K_Average_Images] = PyInt(255)
    /\ metadata[K_Camera_Exposure] = PyList2(Float_0_2, U_s)

Range(s) == {s[i] : i \in DOMAIN s}

\* k is bound to v in the map md
Has(md, k, v) == k \in DOMAIN md /\ md[k] = v

\* the string s starts with pre
HasPrefix(s, pre) == Len(s) >= Len(pre) /\ SubSeq(s, 1, Len(pre)) = pre

\* the value 12.5 as float("12.5") gives it: 125 * 10^-1
Dec_12_5 == [t |-> "float", cls |-> "decimal", s |-> 0, m |-> 125, e |-> 0 - 1]

\* a complete tag-110 record is at the cursor: tag, a string, the terminator
\* and the four bytes of the calibration factor
FovAtCursor ==
    /\ status = "running" /\ pc = "leem"
    /\ iterpos < Len(leemheader.v)
    /\ leemheader.v[iterpos + 1] = 110
    /\ LET rest == SliceFrom(leemheader.v, iterpos + 1)
           z    == FirstZero(rest)
       IN  /\ z >= 1
           /\ Len(rest) >= z + 4
           /\ Cp1252Decodable(SubSeq(rest, 1, z - 1))

\* C11: the step on a tag-110 record with string s records the calibration
\* factor that follows the terminator and, by the prefix of s alone: "LEED"
\* gives LEED = true and FOV = null; "none" gives FOV = null and leaves LEED as
\* it was (absent if absent); "disp.pl." gives the dispersion-plane flag and
\* FOV = null; a number followed by the micron marker gives FOV = (number,
\* micron unit), so "12.5µm" gives (12.5, "µm").
C11_FieldOfView ==
    [][FovAtCursor =>
          LET rest == SliceFrom(leemheader.v, iterpos + 1)
              z    == FirstZero(rest)
              s    == Cp1252Decode(SubSeq(rest, 1, z - 1))
              cal  == Unpack_f(SubSeq(rest, z + 1, z + 4))
              head == BeforeSep(s, U_micron, 1)
              num  == PyFloat(head)
          IN  /\ status' = "running"
              /\ Has(metadata', K_FOV_cal_factor, cal)
              /\ HasPrefix(s, K_LEED)
                    => /\ Has(metadata', K_LEED, PyBool(TRUE))
                       /\ Has(metadata', K_FOV, PyNone)
              /\ HasPrefix(s, S_none)
                    => /\ Has(metadata', K_FOV, PyNone)
                       /\ IF K_LEED \in DOMAIN metadata
                          THEN Has(metadata', K_LEED, metadata[K_LEED])
                          ELSE K_LEED \notin DOMAIN metadata'
              /\ HasPrefix(s, S_disp_pl)
                    => /\ Has(metadata', K_disp_plane, PyBool(TRUE))
                       /\ Has(metadata', K_FOV, PyNone)
              /\ (Len(head) < Len(s) /\ num.t = "float")
                    => Has(metadata', K_FOV, PyList2(num, U_micron))
              /\ s = S_12_5_um
                    => Has(metadata', K_FOV, PyList2(Dec_12_5, U_micron))]_vars

\* the record "LEED 50" with calibration factor 0.2 was decoded: LEED is set,
\* FOV is null and the factor is recorded
C11_Witness ==
    /\ status = "running" /\ pc = "leem" /\ position = 13
    /\ SubSeq(leemheader.v, 1, 9) = <<110>> \o K_LEED \o <<32, 53, 48, 0>>
    /\ Has(metadata, K_LEED, PyBool(TRUE))
    /\ Has(metadata, K_FOV, PyNone)
    /\ Has(metadata, K_FOV_cal_factor, Float_0_2)

\* the keys of the fixed-layout headers
HeaderKeys ==
    {f.key : f \in {g \in (Range(PreambleFields) \cup Range(ImageHeaderFields)) :
                       g.op # "skip"}}

\* C12: the step that reads 255 as a tag ends the tagged decoder: it adds no
\* field and logs nothing, and from then on no byte of the block is read
\* (the iterator and the cursor stay put) and the map no longer changes, so
\* the bytes after the sentinel have no effect; a block that is the single
\* byte 255 leaves the map with the header fields only and raises no error.
C12_Sentinel ==
    /\ [][(status = "running" /\ pc = "leem" /\ iterpos < Len(leemheader.v)
             /\ leemheader.v[iterpos + 1] = 255)
          => /\ pc' = "image" /\ status' = "running"
             /\ metadata' = metadata /\ log' = log
             /\ iterpos' = iterpos + 1 /\ position' = position]_vars
    /\ [][(pc \in {"image", "done"})
          => /\ metadata' = metadata
             /\ iterpos' = iterpos /\ position' = position
             /\ pc' \in {"image", "done"}]_vars
    /\ [][(pc = "leem" /\ leemheader.v = <<255>>)
          => (status' = "running" /\ DOMAIN metadata' = HeaderKeys)]_vars

\* a sentinel followed by the bytes of a field ended the decoder with the
\* header fields only
C12_Witness ==
    /\ pc = "done" /\ status = "done"
    /\ Len(leemheader.v) >= 3
    /\ SubSeq(leemheader.v, 1, 3) = <<255, 210, 70>>
    /\ iterpos = 1 /\ position = 0
    /\ DOMAIN metadata = HeaderKeys

\* a complete gauge record is at the cursor: one of the four tags, a label,
\* a terminator, a unit, a terminator and four float bytes
GaugeAtCursor ==
    /\ status = "running" /\ pc = "leem"
    /\ iterpos < Len(leemheader.v)
    /\ leemheader.v[iterpos + 1] \in {106, 235, 236, 237}
    /\ LET rest  == SliceFrom(leemheader.v, iterpos + 1)
           z1    == FirstZero(rest)
           rest2 == SliceFrom(rest, z1)
           z2    == FirstZero(rest2)
       IN  /\ z1 >= 1 /\ z2 >= 1
           /\ Len(rest2) >= z2 + 4
           /\ Cp1252Decodable(SubSeq(rest, 1, z1 - 1))
           /\ Cp1252Decodable(SubSeq(rest2, 1, z2 - 1))

\* C13: the step on a gauge record with label L, unit U and float v records
\* metadata[L] = (v, U) whichever of the four tags introduced it, and the
\* next tag is the byte after the four float bytes.
C13_Gauge ==
    [][GaugeAtCursor =>
          LET rest  == SliceFrom(leemheader.v, iterpos + 1)
              z1    == FirstZero(rest)
              rest2 == SliceFrom(rest, z1)
              z2    == FirstZero(rest2)
              L     == Cp1252Decode(SubSeq(rest, 1, z1 - 1))
              U     == Cp1252Decode(SubSeq(rest2, 1, z2 - 1))
              v     == Unpack_f(SubSeq(rest2, z2 + 1, z2 + 4))
          IN  /\ status' = "running" /\ pc' = "leem"
              /\ Has(metadata', L, PyList2(v, U))
              /\ iterpos' = iterpos + 1 + z1 + z2 + 4
              /\ position' = iterpos']_vars

\* the record of tag 236 with label "Foo", unit "T" and value 3.5 was decoded
\* and the loop is at the byte after it
C13_Witness ==
    /\ status = "running" /\ pc = "leem" /\ position = 11 /\ iterpos = 11
    /\ leemheader.v[1] = 236
    /\ Has(metadata, N_Foo, PyList2(Unpack_f(F_3_5), N_T))

\* unsigned 16-bit little-endian word at byte offset a (from 0) of a block
WordAt(raw, a) == raw[a + 1] + 256 * raw[a + 2]

\* from offset i the block holds records of type 6 (24 bytes) and of type 3
\* (14 bytes) and then the selector 0, all within the block
RECURSIVE RecordsThenZero(_, _)
RecordsThenZero(raw, i) ==
    /\ i + 2 <= Len(raw)
    /\ \/ WordAt(raw, i) = 0
       \/ WordAt(raw, i) = 6 /\ RecordsThenZero(raw, i + 24)
       \/ WordAt(raw, i) = 3 /\ RecordsThenZero(raw, i + 14)

\* (x, y, radius) of the type-6 records of such a block, in block order
RECURSIVE MarkersFrom(_, _)
MarkersFrom(raw, i) ==
    IF WordAt(raw, i) = 0 THEN <<>>
    ELSE IF WordAt(raw, i) = 6
    THEN <<[x |-> WordAt(raw, i + 2), y |-> WordAt(raw, i + 4),
            radius |-> WordAt(raw, i + 6)]>> \o MarkersFrom(raw, i + 24)
    ELSE MarkersFrom(raw, i + 14)

\* the two endpoint pairs of the type-3 records of such a block, in block order
RECURSIVE CrossSectionsFrom(_, _)
CrossSectionsFrom(raw, i) ==
    IF WordAt(raw, i) = 0 THEN <<>>
    ELSE IF WordAt(raw, i) = 3
    THEN <<[x0_y0 |-> <<WordAt(raw, i + 2), WordAt(raw, i + 4)>>,
            x1_y1 |-> <<WordAt(raw, i + 6), WordAt(raw, i + 8)>>]>>
         \o CrossSectionsFrom(raw, i + 14)
    ELSE CrossSectionsFrom(raw, i + 24)

\* the list stored under key k, empty when there is none
ListOf(d, k) == IF k \in DOMAIN d THEN d[k] ELSE <<>>

\* the markup decoder has returned
MarkupsDecoded ==
    /\ pc \in {"leemblock", "leem", "image", "done"}
    /\ rawmarkups.t = "bytes"

\* C14: once the markup decoder has returned from a block made of type-6 and
\* type-3 records followed by the selector 0, the markers are (x, y, radius)
\* of every type-6 record in block order, the cross-sections are the endpoint
\* pairs of every type-3 record in block order, and nothing else is stored;
\* the block with the one marker (10, 20, 5) gives that one marker entry and
\* no cross-section entry.
C14_Markups ==
    (MarkupsDecoded /\ RecordsThenZero(rawmarkups.v, 4))
        => /\ markups.t = "dict"
           /\ DOMAIN markups.v \subseteq {"marker", "arbitrary"}
           /\ ListOf(markups.v, "marker") = MarkersFrom(rawmarkups.v, 4)
           /\ ListOf(markups.v, "arbitrary") = CrossSectionsFrom(rawmarkups.v, 4)
           /\ (Len(rawmarkups.v) >= 30
                 /\ SubSeq(rawmarkups.v, 5, 30) = MarkerRec(10, 20, 5) \o H16(0))
                 => /\ ListOf(markups.v, "marker")
                          = <<[x |-> 10, y |-> 20, radius |-> 5]>>
                    /\ ListOf(markups.v, "arbitrary") = <<>>

\* a block of marker, cross-section, marker, cross-section and 0 was decoded
C14_Witness ==
    /\ status = "done" /\ MarkupsDecoded
    /\ RecordsThenZero(rawmarkups.v, 4)
    /\ Len(ListOf(markups.v, "marker")) = 2
    /\ Len(ListOf(markups.v, "arbitrary")) = 2
    /\ markups.v["marker"][2] = [x |-> 30, y |-> 40, radius |-> 7]
    /\ markups.v["arbitrary"][2] = [x0_y0 |-> <<5, 6>>, x1_y1 |-> <<7, 8>>]

\* C15: the step of the markup decoder on a selector other than 0, 3 and 6
\* keeps the records decoded so far, adds none and leaves the markup decoder;
\* from there the leem-header block is read next, the markup decoder is not
\* entered again and the markups no longer change.
C15_UnknownMarker ==
    /\ [][(status = "running" /\ pc = "markups" /\ type_marker \notin {0, 3, 6})
          => /\ markups' = markups
             /\ pc' = "leemblock" /\ status' = "running"]_vars
    /\ [][(status = "running" /\ pc = "leemblock")
          => (pc' = "leem" /\ leemheader'.t = "bytes" /\ status' = "running")]_vars
    /\ [][(pc \in {"leemblock", "leem", "image", "done"})
          => /\ markups' = markups
             /\ pc' \in {"leemblock", "leem", "image", "done"}]_vars

\* a block of a marker, the selector 9 and a second marker: the decode is
\* complete with the first marker only
C15_Witness ==
    /\ status = "done" /\ rawmarkups.t = "bytes"
    /\ WordAt(rawmarkups.v, 28) = 9 /\ WordAt(rawmarkups.v, 30) = 6
    /\ markups.v = [marker |-> <<[x |-> 10, y |-> 20, radius |-> 5]>>]
    /\ leemheader.t = "bytes"
    /\ Len(log) = 1 /\ log[1].kind = "unknown_marker"

\* the tags the dispatch has a rule for, the sentinel included
RecognizedTags ==
    KNOWN_TAGS \cup GAUGE_TAGS
    \cup {104, 233, 243, 244, 100, 242, 110, 113, 240, 239, 255}

\* the byte delivered as the next tag is not a recognized tag
UnknownTagAtCursor ==
    /\ status = "running" /\ pc = "leem"
    /\ iterpos < Len(leemheader.v)
    /\ leemheader.v[iterpos + 1] \notin RecognizedTags

\* C16: the step on an unrecognized tag, wherever it is in the block and also
\* as the very first tag, emits one diagnostic and does not fail: the decode
\* goes on.
C16_UnknownTagNonFatal ==
    [][UnknownTagAtCursor
          => (status' = "running" /\ Len(log') = Len(log) + 1)]_vars

\* C17: the step on an unrecognized tag leaves the metadata map as it was: no
\* key added, no key removed, no value overwritten.
C17_UnknownTagFrame ==
    [][UnknownTagAtCursor => metadata' = metadata]_vars

\* the block 242 1 0, then the unrecognized tag 1 and two bytes, then a field
\* "Foo" and the sentinel was decoded: one diagnostic for the tag at 3, and
\* the fields before and after it are in the map
C17_Witness ==
    /\ status = "done"
    /\ log = <<[kind |-> "unknown_tag", tag |-> 1, pos |-> 3]>>
    /\ Has(metadata, K_MirrorState, PyInt(1))
    /\ N_Foo \in DOMAIN metadata
    /\ DOMAIN metadata = HeaderKeys \cup {K_MirrorState, N_Foo}

\* a value is a list of one or two elements
IsPair(v) == v.t = "list" /\ Len(v.v) \in 1..2

\* C18 as stated: after a successful decode every value of the metadata map
\* is an integer or a list of one or two elements.
C18_IntOrPair ==
    status = "done"
        => \A k \in DOMAIN metadata : metadata[k].t = "int" \/ IsPair(metadata[k])

\* C18 amended: after a successful decode every value of the metadata map is
\* an integer, a two-element list [float, unit], or one of: bytes under "id"
\* and "usemask", the instant under "timestamp", a string under "Image
\* Title", a bare float under "FOV cal. factor", a boolean under "LEED" and
\* "disp_plane", null under "FOV"; no list has another length.
C18_ValueShapes ==
    status = "done"
        => \A k \in DOMAIN metadata :
              LET v == metadata[k]
              IN  \/ v.t = "int"
                  \/ v.t = "list" /\ Len(v.v) = 2 /\ v.v[1].t = "float"
                  \/ v.t = "bytes" /\ k \in {K_id, K_usemask}
                  \/ v.t = "datetime" /\ k = K_timestamp
                  \/ v.t = "str" /\ k = K_Image_Title
                  \/ v.t = "float" /\ k = K_FOV_cal_factor
                  \/ v.t = "bool" /\ k \in {K_LEED, K_disp_plane}
                  \/ v.t = "none" /\ k = K_FOV

\* a decode with the two positions of a tag-100 record was completed: the map
\* holds bytes, an instant, integers and two-element lists
C18_Witness ==
    /\ status = "done"
    /\ metadata[K_id].t = "bytes" /\ metadata[K_timestamp].t = "datetime"
    /\ metadata[K_width].t = "int"
    /\ K_Mitutoyo_X \in DOMAIN metadata
    /\ Has(metadata, K_Mitutoyo_Y, PyList2(Float_0_2, U_mm))

\* C19: the conversion of the tick count of the image header never fails:
\* no decode ends with the OverflowError of _convert_ad_timestamp, whatever
\* the eight bytes of the tick count are.
C19_TimestampNeverFails ==
    ~(status = "failed" /\ pc = "imghdr" /\ err = "OverflowError")

\* C20: when the files are decoded together, one FileReader each, under any
\* interleaving of the stages, every decode that has ended left what the
\* decode of its file alone left, and the three shared tables are as the
\* import of the module left them.
C20_Independent ==
    /\ tables = Tables
    /\ sched.phase = "together"
          => /\ Finished(Instance) => Result(Instance) = sched.solo[sched.cur]
             /\ \A i \in DOMAIN sched.others :
                   Finished(sched.others[i])
                      => Result(sched.others[i]) = sched.solo[i]

\* both decodes have ended after their stages were interleaved: the shared
\* diagnostics show the unknown marker of the second file between the two
\* unknown tags of the first
C20_Witness ==
    /\ sched.phase = "together"
    /\ Finished(Instance)
    /\ \A i \in DOMAIN sched.others : Finished(sched.others[i])
    /\ Len(log) = 3
    /\ log[1].kind = "unknown_tag" /\ log[2].kind = "unknown_marker"
    /\ log[3].kind = "unknown_tag"

\* the constructor of DATImage fails on the file the batch loop is at
BatchFileFails ==
    /\ batch.state = "running" /\ batch.stage = "decode"
    /\ batch.i <= Len(batch.files)
    /\ DATImage(batch.files[batch.i]).t = "raise"

\* C21: when the decode of a file of the list fails, the batch tool skips the
\* file and goes on with the next one.
C21_SkipAndContinue ==
    [][BatchFileFails
          => (batch'.state = "running" /\ batch'.i = batch.i + 1)]_vars

\* offset in the file of the block that lines 654-667 hand to the tagged
\* decoder, from the selector and the markup size the header declares
LeemBlockStart ==
    IF DeclaredSelector <= 2 THEN 132
    ELSE 132 + 260
         + (IF DeclaredMarkupSize > 0
            THEN 128 * (DeclaredMarkupSize \div 128 + 1) ELSE 0)

LeemBlockLength == IF DeclaredSelector <= 2 THEN 240 ELSE DeclaredSelector

ByteTagAtCursor ==
    /\ status = "running" /\ pc = "leem"
    /\ iterpos < Len(leemheader.v)
    /\ leemheader.v[iterpos + 1] \in {242, 240}

\* the key lines 358 and 451 write for the tag
ByteKey(tag) == IF tag = 242 THEN K_MirrorState ELSE K_Spin_up_down

\* C24: after a mirror-state record (tag 242) or a spin-state record (tag
\* 240) at cursor position p the recorded value is the raw byte at p+1 and the
\* cursor has advanced by 1 plus 1 for the tag byte: the next tag is read at
\* p+2.
C24_NextTagAtPlus2 ==
    [][(ByteTagAtCursor /\ iterpos + 3 <= Len(leemheader.v))
          => LET p == position
             IN  /\ status' = "running"
                 /\ Has(metadata', ByteKey(leemheader.v[p + 1]),
                        PyInt(leemheader.v[p + 2]))
                 /\ position' = p + 2
                 /\ iterpos' = p + 2]_vars

\* C24 as the code has it: the value is the raw byte at p+1, the cursor
\* advances by 2 plus 1 for the tag byte, so the byte at p+2 is passed over
\* and the next tag is read at p+3; a record that has no byte after its value
\* in the block stores the value and then fails with StopIteration.
C24_ByteRecord ==
    [][ByteTagAtCursor
          => LET p == position
             IN  /\ iterpos = p
                 /\ p + 3 <= Len(leemheader.v)
                      => /\ status' = "running" /\ pc' = "leem"
                         /\ Has(metadata', ByteKey(leemheader.v[p + 1]),
                                PyInt(leemheader.v[p + 2]))
                         /\ \A k \in (DOMAIN metadata)
                                       \ {ByteKey(leemheader.v[p + 1])} :
                                Has(metadata', k, metadata[k])
                         /\ position' = p + 3
                         /\ iterpos' = p + 3
                 /\ p + 2 = Len(leemheader.v)
                      => /\ status' = "failed" /\ err' = "StopIteration"
                         /\ Has(metadata', ByteKey(leemheader.v[p + 1]),
                                PyInt(leemheader.v[p + 2]))
                 /\ p + 1 = Len(leemheader.v)
                      => status' = "failed" /\ err' = "IndexError"]_vars

\* a mirror-state record with value 1 followed by the byte 255 was decoded:
\* the 255 was passed over and the loop is at the sentinel after it
C24_Witness ==
    /\ status = "running" /\ pc = "leem"
    /\ Len(leemheader.v) >= 4
    /\ SubSeq(leemheader.v, 1, 4) = <<242, 1, 255, 255>>
    /\ position = 3 /\ iterpos = 3
    /\ Has(metadata, K_MirrorState, PyInt(1))

\* C25: in the tagged decoder the cursor starts at 0 and grows with every
\* completed iteration of the loop, and at the start of every iteration the
\* byte the iterator delivers next is the one at index position of the block:
\* iterator and position never drift apart, also after an unrecognized tag.
C25_Cursor ==
    [][/\ (pc # "leem" /\ pc' = "leem")
            => position' = 0 /\ iterpos' = 0
       /\ (pc = "leem" /\ pc' = "leem" /\ status' = "running")
            => /\ position' > position
               /\ iterpos' = position'
               /\ position' <= Len(leemheader.v)
       /\ pc = "leem" => position' >= position]_vars

\* the loop is at its third iteration, after a mirror-state record and an
\* unrecognized tag 1 that took over the advance of that record
C25_Witness ==
    /\ status = "running" /\ pc = "leem"
    /\ Len(leemheader.v) >= 7
    /\ SubSeq(leemheader.v, 1, 7) = <<242, 1, 0, 1, 9, 9, 255>>
    /\ position = 6 /\ iterpos = 6

\* C26: for every leem-header block and every markup block, with or without
\* a sentinel, the loop of the tagged decoder and the loop of the markup
\* decoder end, normally or with an error, after at most as many iterations as
\* the block has bytes.  Every iteration starts at a byte of the block, and
\* one that is followed by another iteration moves the iterator (resp. the
\* index i) forward, by at least 1 (resp. 14): no two iterations start at the
\* same byte.  The step that follows the last byte leaves the loop.
C26_LoopsTerminate ==
    [][/\ (pc = "leem" /\ status = "running")
            => \/ /\ pc' = "leem" /\ status' = "running"
                  /\ iterpos < Len(leemheader.v)
                  /\ iterpos' > iterpos
                  /\ iterpos' <= Len(leemheader.v)
               \/ pc' = "image" /\ status' = "running"
               \/ status' = "failed" /\ iterpos < Len(leemheader.v)
       /\ (pc = "markups" /\ status = "running")
            => \/ /\ pc' = "markups" /\ status' = "running"
                  /\ mi + 2 <= Len(rawmarkups.v)
                  /\ mi' >= mi + 14
                  /\ mi' + 2 <= Len(rawmarkups.v)
               \/ pc' = "leemblock" /\ status' = "running"
               \/ status' = "failed" /\ mi + 2 <= Len(rawmarkups.v)]_vars

\* both loops have ended: the markup loop after six records, the tagged loop
\* at the sentinel
C26_Witness ==
    /\ status = "done"
    /\ rawmarkups # Unset
    /\ mi = 4 + 6 * 24
    /\ type_marker = 0
    /\ iterpos = 1

\* the stages of _read in the order of its lines: fixed header (596-652, with
\* the layout branch), markup decoding (661), the read of the leem header of
\* the other layout (662, 667), the tagged decoder (668), the image (670-678)
StageRank(p) ==
    CASE p \in {"preamble", "recipe", "imghdr", "layout"} -> 1
      [] p \in {"markups_begin", "markups"} -> 2
      [] p = "leemblock" -> 3
      [] p = "leem" -> 4
      [] p = "image" -> 5
      [] p = "done" -> 6

\* C27: the stages of a decode run in the order fixed header, markup decoding
\* (when it runs), tagged decoding, image extraction.  No step goes back to an
\* earlier stage; the markups are written in the markup stage only and the
\* metadata in the header and tagged stages only; the image stage is entered
\* from the tagged loop only, when that has met the sentinel or used up the
\* block; the pixel payload is read in the image stage only, and no step at
\* all is taken after a failure.
C27_StageOrder ==
    [][/\ status = "running"
       /\ StageRank(pc') >= StageRank(pc)
       /\ markups' # markups => StageRank(pc) = 2
       /\ metadata' # metadata => StageRank(pc) \in {1, 4}
       /\ leemheader' # leemheader => pc \in {"layout", "leemblock"}
       /\ (pc # "image" /\ pc' = "image")
            => /\ pc = "leem"
               /\ \/ iterpos >= Len(leemheader.v)
                  \/ leemheader.v[iterpos + 1] = 255
       /\ data' # data
            => /\ pc = "image" /\ data = Unset
               /\ status' = "done" /\ pc' = "done"
       /\ status' = "done" => data' # Unset
       /\ status' = "failed" => data' = Unset]_vars

\* a decode that went through every stage: cross-sections were decoded, the
\* tagged loop met the sentinel and the image was read
C27_Witness ==
    /\ status = "done" /\ pc = "done"
    /\ data # Unset
    /\ markups # Unset
    /\ "arbitrary" \in DOMAIN markups.v
    /\ position = 0 /\ iterpos = 1

\* C28: the step on an unrecognized tag that comes after a recognized record
\* of the same block (the local offset is bound) advances the cursor by the
\* amount the preceding iteration advanced by, offset + 1, whatever that
\* record was.
C28_StaleAdvance ==
    [][(UnknownTagAtCursor /\ offset # Unbound)
          => /\ position' = position + offset.v + 1
             /\ iterpos' = iterpos + offset.v + 1]_vars

\* uview.py line 42, f.markups: reading a slot that was never assigned raises
\* AttributeError
GetSlot(slot) == IF slot = Unset THEN Raise("AttributeError") ELSE slot

\* C29: after every successful decode, simple layout and markup size 0
\* included, the markups attribute is defined and reading it does not fail, so
\* Uview.read_dat succeeds on every file that FileReader decodes.
C29_MarkupsDefined ==
    status = "done" => GetSlot(markups).t # "raise"

\* C30: tagged decoding never changes a value of the fixed header: whatever
\* names the records of the leem header carry, during and after the tagged
\* loop metadata["width"] and metadata["height"] are the integers read from
\* the header offsets 40 and 42, and these are what the image extraction uses.
C30_HeaderValuesKept ==
    ((status = "running" /\ pc \in {"leem", "image"}) \/ status = "done")
        => /\ Has(metadata, K_width, PyInt(DeclaredWidth))
           /\ Has(metadata, K_height, PyInt(DeclaredHeight))

====
